---- MODULE Spec2Model ----
(***************************************************************************)
(* workman: the repository / worktree lifecycle engine and the modal key   *)
(* dispatcher of internal/ui/model.go, over internal/state/state.go, the   *)
(* path-keyed notes of the config package and the git adapter of           *)
(* internal/git/repository.go.                                             *)
(*                                                                         *)
(* The program is single-threaded: every action below is one complete call *)
(* of Model.Update (or of Model.View, or of the Bubble Tea runtime that     *)
(* hands the message of a returned command back to Update).  git, the file  *)
(* system, the clipboard and config.Save are the environment: each call of  *)
(* them either fails or has its effect on the environment variables.       *)
(* Indices are 0-based as in the Go code; Worktrees[i] of the code is      *)
(* Worktrees[i + 1] here.                                                  *)
(*                                                                         *)
(* The name sanitizers, the directories built from them and the file-based *)
(* script and note storage of the config package work on strings; they are *)
(* specified on their own (SpecNames, SpecStorage) further down.           *)
(***************************************************************************)
EXTENDS Integers, Sequences, FiniteSets, TLC

\* ------------------------------------------------------------------ bounds
\* number of distinct repository names the user and the config file use
MaxRepos == 2
\* number of distinct non-primary branch names per repository
MaxBranches == 1
\* number of worktree notes the config holds at any time
MaxNotes == 1
\* number of command results in flight between the runtime and Update
MaxPending == 1

RepoNames == 1..MaxRepos
\* branch 0 is the branch checked out in the primary worktree
BranchNames == 1..MaxBranches

\* ------------------------------------------------------------ value domains
DialogNone == "DialogNone"
DialogAddRepo == "DialogAddRepo"
DialogAddWorktree == "DialogAddWorktree"
DialogConfirmDelete == "DialogConfirmDelete"
DialogConfirmDeleteRepo == "DialogConfirmDeleteRepo"
DialogEditScript == "DialogEditScript"

ReposPane == "repos"
WorktreesPane == "worktrees"

\* the Go empty string, as the value of a message, a script or a text field
Empty == <<>>

\* texts the user types (a note, a script) that are not empty after trimming
SomeText == <<"text">>

\* the zero values of the dialog structs; a dialog struct is read only while
\* its dialog is open and is rebuilt whenever the dialog opens, so a closed
\* dialog is kept here at its zero value
NoAddRepoDialog == [focusIndex |-> 0, name |-> Empty, path |-> Empty]
NoAddWorktreeDialog == [branch |-> Empty]
NoConfirmDeleteDialog == [worktreeName |-> Empty, branchName |-> Empty]
NoConfirmDeleteRepoDialog == [repoName |-> Empty]
NoEditScriptDialog == [repoName |-> Empty, script |-> Empty]

\* `last` names the workflow the last Update ran ("cancel" when it closed a
\* dialog on Esc or "n"), NoHandler for any other key
NoHandler == "none"

\* `applied` before any naming or storage function was called
NotApplied ==
    [name |-> "none", args |-> <<>>, out |-> <<>>, err |-> FALSE, fault |-> FALSE]

\* ------------------------------------------------------------------- state
VARIABLES
    Repositories,            \* Config.Repositories
    WorktreeNotes,           \* Config.WorktreeNotes
    SelectedRepoIndex,       \* AppState.SelectedRepoIndex
    SelectedWTIndex,         \* AppState.SelectedWTIndex
    ActivePane,              \* AppState.ActivePane
    Worktrees,               \* AppState.Worktrees
    dialogType,              \* Model.dialogType
    addRepoDialog,           \* Model.addRepoDialog
    addWorktreeDialog,       \* Model.addWorktreeDialog
    confirmDeleteDialog,     \* Model.confirmDeleteDialog
    confirmDeleteRepoDialog, \* Model.confirmDeleteRepoDialog
    editScriptDialog,        \* Model.editScriptDialog
    editingNotes,            \* Model.editingNotes
    editingWorktreePath,     \* Model.editingWorktreePath
    notesTextarea,           \* Model.notesTextarea: its value
    errorMsg,                \* Model.errorMsg
    successMsg,              \* Model.successMsg
    pending,                 \* results of returned tea.Cmd not yet delivered
    quit,                    \* tea.Quit was returned: where from
    gitDirs,                 \* repository directories that exist on disk
    registry,                \* git's worktree registry of each repository
    calls,                   \* adapter calls of the last Update, in order
    last,                    \* the handler the last Update ran
    files,                   \* the files under ~/.config/workman/{scripts,notes}
    applied                  \* the last function of the naming and storage
                             \* code that was called: arguments and results

cfgVars == <<Repositories, WorktreeNotes>>
selVars == <<SelectedRepoIndex, SelectedWTIndex, ActivePane, Worktrees>>
dlgVars == <<dialogType, addRepoDialog, addWorktreeDialog, confirmDeleteDialog,
             confirmDeleteRepoDialog, editScriptDialog>>
noteVars == <<editingNotes, editingWorktreePath, notesTextarea>>
msgVars == <<errorMsg, successMsg>>
envVars == <<gitDirs, registry>>
\* the file-based storage and the naming functions are called from outside
\* Model.Update: no key handler touches these two
pureVars == <<files, applied>>
uiVars == <<Repositories, WorktreeNotes, SelectedRepoIndex, SelectedWTIndex,
            ActivePane, Worktrees, dialogType, addRepoDialog, addWorktreeDialog,
            confirmDeleteDialog, confirmDeleteRepoDialog, editScriptDialog,
            editingNotes, editingWorktreePath, notesTextarea, errorMsg, successMsg,
            pending, quit, gitDirs, registry, calls, last>>
vars == <<Repositories, WorktreeNotes, SelectedRepoIndex, SelectedWTIndex,
          ActivePane, Worktrees, dialogType, addRepoDialog, addWorktreeDialog,
          confirmDeleteDialog, confirmDeleteRepoDialog, editScriptDialog,
          editingNotes, editingWorktreePath, notesTextarea, errorMsg, successMsg, pending,
          quit, gitDirs, registry, calls, last, files, applied>>

\* ------------------------------------------------------------ pure helpers
Min(a, b) == IF a < b THEN a ELSE b

Range(s) == {s[i] : i \in 1..Len(s)}

\* all sequences without repetition over a finite set
RECURSIVE DistinctSeqs(_)
DistinctSeqs(S) ==
    {<<>>} \cup UNION {{<<x>> \o t : t \in DistinctSeqs(S \ {x})} : x \in S}

\* s without its element at 0-based index i: append(s[:i], s[i+1:]...)
RemoveAt(s, i) == [k \in 1..(Len(s) - 1) |-> IF k <= i THEN s[k] ELSE s[k + 1]]

\* the directory a repository lives in: the path the user registered a local
\* repository with, or <rootDir>/<sanitized name> of a cloned one
RepoPath(n) == <<"root", <<n>>>>

\* the directory AddWorktree creates: <rootDir>/<repo>-<branch>
WorktreePath(n, b) == <<"root", <<n, b>>>>

\* filepath.Base
Base(path) == path[Len(path)]

\* inferRepoType of the path or URL the user registers name n with
RepoType(n) == IF n % 2 = 1 THEN "local" ELSE "remote"

\* one block of `git worktree list --porcelain`, parsed
ParseWorktree(path, branch) == [Name |-> Base(path), Branch |-> branch, Path |-> path]

\* a listing with the primary worktree last
ListWorktreesMainLast(n, reg) ==
    [k \in 1..Len(reg[n]) |-> ParseWorktree(WorktreePath(n, reg[n][k]), reg[n][k])] \o
    <<ParseWorktree(RepoPath(n), 0)>>

\* git.ListWorktrees on success: the primary worktree first, then the
\* registered ones in git's order
ListWorktrees(n, reg) ==
    <<ParseWorktree(RepoPath(n), 0)>> \o
    [k \in 1..Len(reg[n]) |-> ParseWorktree(WorktreePath(n, reg[n][k]), reg[n][k])]

\* the repository a path belongs to
RepoOfPath(path) == path[2][1]

\* Config.GetWorktreeNotes
GetWorktreeNotes(notes, path) ==
    IF \E x \in notes : x.Path = path
    THEN (CHOOSE x \in notes : x.Path = path).Notes
    ELSE Empty

\* SetWorktreeNotes that keeps a record for an empty text
SetWorktreeNotesKeepsEmpty(notes, path, text) ==
    {x \in notes : x.Path # path} \cup {[Path |-> path, Notes |-> text]}

\* Config.SetWorktreeNotes
SetWorktreeNotes(notes, path, text) ==
    LET others == {x \in notes : x.Path # path}
    IN  IF text = Empty THEN others
        ELSE others \cup {[Path |-> path, Notes |-> text]}

\* Config.DeleteWorktreeNotes
DeleteWorktreeNotes(notes, path) == {x \in notes : x.Path # path}

\* AppState.GetSelectedRepo: the index it leaves in SelectedRepoIndex
\* (it clamps the cursor as a side effect); the result is nil iff the list
\* is empty
GetSelectedRepoIndex(repos, idx) ==
    IF Len(repos) = 0 THEN idx
    ELSE IF idx >= Len(repos) THEN Len(repos) - 1
    ELSE idx

\* Model.loadWorktrees: the Worktrees and SelectedWTIndex it leaves and the
\* git calls it makes, for the repository list, the cursor GetSelectedRepo
\* has clamped and the environment given
LoadWorktrees(repos, idx, wtIdx, dirs, reg, listOk) ==
    IF Len(repos) = 0
    THEN [Worktrees |-> <<>>, SelectedWTIndex |-> wtIdx, calls |-> <<>>]
    ELSE IF repos[idx + 1].Name \notin dirs
    THEN [Worktrees |-> <<>>, SelectedWTIndex |-> wtIdx, calls |-> <<>>]
    ELSE IF ~listOk
    THEN [Worktrees |-> <<>>, SelectedWTIndex |-> wtIdx,
          calls |-> <<[op |-> "ListWorktrees", arg |-> repos[idx + 1].Path, ok |-> FALSE]>>]
    ELSE [Worktrees |-> ListWorktrees(repos[idx + 1].Name, reg),
          SelectedWTIndex |-> 0,
          calls |-> <<[op |-> "ListWorktrees", arg |-> repos[idx + 1].Path, ok |-> TRUE]>>]

\* showError / showSuccess: the message the returned command produces
ErrorMsg(text) == [kind |-> "error", text |-> text]
SuccessMsg(text) == [kind |-> "success", text |-> text]

\* an adapter call and whether it succeeded
Call(op, arg, ok) == [op |-> op, arg |-> arg, ok |-> ok]

\* --------------------------------------------------------------------- Init
\* state.New and NewModel over a loaded config; the repositories of the
\* config may or may not still exist on disk
InitOver(repoNames, branchNames) ==
    /\ Repositories \in
         {[k \in 1..Len(s) |->
             [Name |-> s[k], Path |-> RepoPath(s[k]), Type |-> RepoType(s[k]),
              PostCreateScript |-> Empty]] : s \in DistinctSeqs(repoNames)}
    /\ WorktreeNotes = {}
    /\ SelectedRepoIndex = 0
    /\ ActivePane = ReposPane
    /\ gitDirs \in SUBSET repoNames
    /\ registry \in [RepoNames -> DistinctSeqs(branchNames)]
    /\ \A n \in RepoNames : n \notin gitDirs => registry[n] = <<>>
    /\ \E listOk \in BOOLEAN :
         LET lw == LoadWorktrees(Repositories, 0, 0, gitDirs, registry, listOk)
         IN  /\ Worktrees = lw.Worktrees
             /\ SelectedWTIndex = lw.SelectedWTIndex
    /\ dialogType = DialogNone
    /\ addRepoDialog = NoAddRepoDialog
    /\ addWorktreeDialog = NoAddWorktreeDialog
    /\ confirmDeleteDialog = NoConfirmDeleteDialog
    /\ confirmDeleteRepoDialog = NoConfirmDeleteRepoDialog
    /\ editScriptDialog = NoEditScriptDialog
    /\ editingNotes = FALSE
    /\ editingWorktreePath = Empty
    /\ notesTextarea = Empty
    /\ errorMsg = Empty
    /\ successMsg = Empty
    /\ pending = <<>>
    /\ quit = "no"
    /\ calls = <<>>
    /\ last = NoHandler
    /\ files = {}
    /\ applied = NotApplied

Init == InitOver(RepoNames, BranchNames)

\* every key handler: the program runs, and the runtime has room for the
\* command the handler may return
CanHandleKey == quit = "no" /\ Len(pending) < MaxPending

\* InNormal without the two dispatches that come before the normal keys
InNormalAnyMode == CanHandleKey

InNormal == CanHandleKey /\ ~editingNotes /\ dialogType = DialogNone

\* ------------------------------------------------- state.go: cursor moves
\* a NextRepo that leaves the worktree cursor where it was
NextRepoKeepsWTIndex(repos, idx, wtIdx) ==
    IF Len(repos) > 0
    THEN [SelectedRepoIndex |-> (idx + 1) % Len(repos), SelectedWTIndex |-> wtIdx]
    ELSE [SelectedRepoIndex |-> idx, SelectedWTIndex |-> wtIdx]

\* AppState.NextRepo
NextRepo(repos, idx, wtIdx) ==
    IF Len(repos) > 0
    THEN [SelectedRepoIndex |-> (idx + 1) % Len(repos), SelectedWTIndex |-> 0]
    ELSE [SelectedRepoIndex |-> idx, SelectedWTIndex |-> wtIdx]

\* AppState.PrevRepo
PrevRepo(repos, idx, wtIdx) ==
    IF Len(repos) > 0
    THEN [SelectedRepoIndex |-> IF idx - 1 < 0 THEN Len(repos) - 1 ELSE idx - 1,
          SelectedWTIndex |-> 0]
    ELSE [SelectedRepoIndex |-> idx, SelectedWTIndex |-> wtIdx]

\* AppState.NextWorktree
NextWorktree(wts, wtIdx) ==
    IF Len(wts) > 0 THEN (wtIdx + 1) % Len(wts) ELSE wtIdx

\* a PrevWorktree that stops at the first worktree
PrevWorktreeNoWrap(wts, wtIdx) ==
    IF Len(wts) > 0 /\ wtIdx > 0 THEN wtIdx - 1 ELSE wtIdx

\* AppState.PrevWorktree
PrevWorktree(wts, wtIdx) ==
    IF Len(wts) > 0
    THEN IF wtIdx - 1 < 0 THEN Len(wts) - 1 ELSE wtIdx - 1
    ELSE wtIdx

\* the process ends (tea.Quit, or a run-time panic): its memory is gone, the
\* environment stays; how records where the exit came from
Exit(how) ==
    /\ quit' = how
    /\ Repositories' = <<>>
    /\ WorktreeNotes' = {}
    /\ SelectedRepoIndex' = 0
    /\ SelectedWTIndex' = 0
    /\ ActivePane' = ReposPane
    /\ Worktrees' = <<>>
    /\ dialogType' = DialogNone
    /\ addRepoDialog' = NoAddRepoDialog
    /\ addWorktreeDialog' = NoAddWorktreeDialog
    /\ confirmDeleteDialog' = NoConfirmDeleteDialog
    /\ confirmDeleteRepoDialog' = NoConfirmDeleteRepoDialog
    /\ editScriptDialog' = NoEditScriptDialog
    /\ editingNotes' = FALSE
    /\ editingWorktreePath' = Empty
    /\ notesTextarea' = Empty
    /\ errorMsg' = Empty
    /\ successMsg' = Empty
    /\ pending' = <<>>
    /\ calls' = <<>>
    /\ last' = NoHandler
    /\ UNCHANGED envVars

\* CanOfferDelete with the comparison off by one: the first worktree too
CanOfferDeleteAny(wtIdx) == wtIdx >= 0

\* the guard of "-": only a worktree below the first one is offered
CanOfferDelete(wtIdx) == wtIdx > 0

\* ClampWTIndex left out: the cursor stays where it was
ClampWTIndexNone(wtIdx, len) == wtIdx

\* "Adjust selected index if needed"
ClampWTIndex(wtIdx, len) ==
    IF wtIdx >= len /\ len > 0 THEN len - 1 ELSE wtIdx

\* ------------------------------------------------ Update: Normal-mode keys
\* "ctrl+c", "q"
KeyQuit ==
    /\ UNCHANGED pureVars
    /\ InNormal
    /\ Exit("normal")

\* "tab": AppState.TogglePane; "h"; "l"
KeyPane ==
    /\ UNCHANGED pureVars
    /\ InNormal
    /\ \E key \in {"tab", "h", "l"} :
         /\ ActivePane' =
              CASE key = "h" -> ReposPane
                [] key = "l" -> WorktreesPane
                [] OTHER -> IF ActivePane = ReposPane THEN WorktreesPane ELSE ReposPane
         /\ last' = NoHandler
    /\ calls' = <<>>
    /\ UNCHANGED <<cfgVars, SelectedRepoIndex, SelectedWTIndex, Worktrees, dlgVars,
                   noteVars, msgVars, pending, quit, envVars>>

\* "up", "k" and "down", "j"
KeyMove ==
    /\ UNCHANGED pureVars
    /\ InNormal
    /\ \E key \in {"up", "down"}, listOk \in BOOLEAN :
         /\ last' = NoHandler
         /\ IF ActivePane = ReposPane
            THEN LET mv == IF key = "up"
                           THEN PrevRepo(Repositories, SelectedRepoIndex, SelectedWTIndex)
                           ELSE NextRepo(Repositories, SelectedRepoIndex, SelectedWTIndex)
                     idx == GetSelectedRepoIndex(Repositories, mv.SelectedRepoIndex)
                     lw == LoadWorktrees(Repositories, idx, mv.SelectedWTIndex,
                                         gitDirs, registry, listOk)
                 IN  /\ SelectedRepoIndex' = idx
                     /\ SelectedWTIndex' = lw.SelectedWTIndex
                     /\ Worktrees' = lw.Worktrees
                     /\ calls' = lw.calls
            ELSE /\ SelectedWTIndex' = IF key = "up"
                                       THEN PrevWorktree(Worktrees, SelectedWTIndex)
                                       ELSE NextWorktree(Worktrees, SelectedWTIndex)
                 /\ calls' = <<>>
                 /\ UNCHANGED <<SelectedRepoIndex, Worktrees>>
    /\ UNCHANGED <<cfgVars, ActivePane, dlgVars, noteVars, msgVars, pending, quit, envVars>>

\* ------------------------------------------------------------------- yank
\* a text is a sequence of pieces; a placeholder is one piece, and so is a
\* name, a branch or a path of the model
PhRepoName == "${repo_name}"
PhBranchName == "${branch_name}"
PhWorktreePath == "${worktree_path}"
PhWorktreeName == "${worktree_name}"

\* the values of Config.YankTemplate tried: unset, the default, and
\* templates with the other placeholders
YankTemplates ==
    { <<>>,
      <<PhWorktreePath>>,
      <<PhRepoName, ":", PhBranchName>>,
      <<PhWorktreeName, "@", PhRepoName>> }

\* the text of a value of the model
TextOf(v) == <<ToString(v)>>

\* strings.ReplaceAll(s, old, new) for a one-piece old
RECURSIVE ReplaceAll(_, _, _)
ReplaceAll(s, old, new) ==
    IF s = <<>> THEN <<>>
    ELSE (IF Head(s) = old THEN new ELSE <<Head(s)>>) \o ReplaceAll(Tail(s), old, new)

\* the template yankWorktreeCommand works on: YankTemplate, or the worktree
\* path placeholder when it is empty
TemplateOrDefault(template) ==
    IF template = <<>> THEN <<PhWorktreePath>> ELSE template

\* the text yankWorktreeCommand writes to the clipboard
YankText(template, repoName, branch, path, name) ==
    LET r0 == TemplateOrDefault(template)
        r1 == ReplaceAll(r0, PhRepoName, repoName)
        r2 == ReplaceAll(r1, PhBranchName, branch)
        r3 == ReplaceAll(r2, PhWorktreePath, path)
    IN  ReplaceAll(r3, PhWorktreeName, name)

\* Model.yankWorktreeCommand, on "y" in the worktrees pane
KeyYank ==
    /\ UNCHANGED pureVars
    /\ InNormal
    /\ ActivePane = WorktreesPane
    /\ Len(Worktrees) > 0
    /\ Len(Repositories) > 0
    /\ last' = NoHandler
    /\ SelectedRepoIndex' = GetSelectedRepoIndex(Repositories, SelectedRepoIndex)
    /\ IF SelectedWTIndex >= Len(Worktrees)
       THEN /\ pending' = Append(pending, ErrorMsg(<<"No worktree selected">>))
            /\ calls' = <<>>
            /\ UNCHANGED errorMsg
       ELSE \E clipOk \in BOOLEAN, template \in YankTemplates :
              LET repo == Repositories[GetSelectedRepoIndex(Repositories,
                                                           SelectedRepoIndex) + 1]
                  wt == Worktrees[SelectedWTIndex + 1]
                  text == YankText(template, TextOf(repo.Name), TextOf(wt.Branch),
                                   TextOf(wt.Path), TextOf(wt.Name))
              IN  /\ calls' = <<Call("clipboard.WriteAll", <<template, text>>, clipOk)>>
                  /\ IF clipOk
                     THEN /\ errorMsg' = Empty
                          /\ pending' = Append(pending,
                                               SuccessMsg(<<"Copied to clipboard">>))
                     ELSE /\ pending' = Append(pending, ErrorMsg(<<"Failed to copy">>))
                          /\ UNCHANGED errorMsg
    /\ UNCHANGED <<cfgVars, SelectedWTIndex, ActivePane, Worktrees, dlgVars, noteVars,
                   successMsg, quit, envVars>>

\* "n" in the worktrees pane: start inline notes editing
KeyNotes ==
    /\ UNCHANGED pureVars
    /\ InNormal
    /\ ActivePane = WorktreesPane
    /\ Len(Worktrees) > 0
    /\ Len(Repositories) > 0
    /\ last' = NoHandler
    /\ calls' = <<>>
    /\ SelectedRepoIndex' = GetSelectedRepoIndex(Repositories, SelectedRepoIndex)
    /\ IF SelectedWTIndex >= Len(Worktrees)
       THEN \* Worktrees[SelectedWTIndex] panics: index out of range
            /\ quit' = "panic"
            /\ UNCHANGED <<noteVars, msgVars>>
       ELSE LET selectedWT == Worktrees[SelectedWTIndex + 1]
            IN  /\ \/ Cardinality(WorktreeNotes) < MaxNotes
                   \/ GetWorktreeNotes(WorktreeNotes, selectedWT.Path) # Empty
                /\ editingNotes' = TRUE
                /\ notesTextarea' = GetWorktreeNotes(WorktreeNotes, selectedWT.Path)
                /\ editingWorktreePath' = selectedWT.Path
                /\ errorMsg' = Empty
                /\ successMsg' = Empty
                /\ UNCHANGED quit
    /\ UNCHANGED <<cfgVars, SelectedWTIndex, ActivePane, Worktrees, dlgVars, pending, envVars>>

\* "s" in the repositories pane: open the edit-script dialog
KeyScript ==
    /\ UNCHANGED pureVars
    /\ InNormal
    /\ ActivePane = ReposPane
    /\ Len(Repositories) > 0
    /\ LET idx == GetSelectedRepoIndex(Repositories, SelectedRepoIndex)
           repo == Repositories[idx + 1]
       IN  /\ SelectedRepoIndex' = idx
           /\ dialogType' = DialogEditScript
           /\ editScriptDialog' = [repoName |-> <<repo.Name>>, script |-> repo.PostCreateScript]
    /\ errorMsg' = Empty
    /\ successMsg' = Empty
    /\ last' = NoHandler
    /\ calls' = <<>>
    /\ UNCHANGED <<cfgVars, SelectedWTIndex, ActivePane, Worktrees, addRepoDialog,
                   addWorktreeDialog, confirmDeleteDialog, confirmDeleteRepoDialog,
                   noteVars, pending, quit, envVars>>

\* "+": open the add-repository or the add-worktree dialog
KeyPlus ==
    /\ UNCHANGED pureVars
    /\ InNormal
    /\ last' = NoHandler
    /\ IF ActivePane = ReposPane
       THEN /\ dialogType' = DialogAddRepo
            /\ addRepoDialog' = NoAddRepoDialog
            /\ calls' = <<>>
            /\ UNCHANGED <<SelectedRepoIndex, addWorktreeDialog>>
       ELSE /\ Len(Repositories) > 0
            /\ LET idx == GetSelectedRepoIndex(Repositories, SelectedRepoIndex)
               IN  /\ SelectedRepoIndex' = idx
                   /\ \E ok \in BOOLEAN :
                        /\ ok => Repositories[idx + 1].Name \in gitDirs
                        /\ calls' = <<Call("ListBranches", Repositories[idx + 1].Path, ok)>>
            /\ dialogType' = DialogAddWorktree
            /\ addWorktreeDialog' = NoAddWorktreeDialog
            /\ UNCHANGED addRepoDialog
    /\ errorMsg' = Empty
    /\ successMsg' = Empty
    /\ UNCHANGED <<cfgVars, SelectedWTIndex, ActivePane, Worktrees, confirmDeleteDialog,
                   confirmDeleteRepoDialog, editScriptDialog, noteVars, pending, quit,
                   envVars>>

\* "-": open the confirm-delete dialog of the active pane
KeyMinus ==
    /\ UNCHANGED pureVars
    /\ InNormal
    /\ last' = NoHandler
    /\ calls' = <<>>
    /\ IF ActivePane = ReposPane
       THEN /\ Len(Repositories) > 0
            /\ LET idx == GetSelectedRepoIndex(Repositories, SelectedRepoIndex)
               IN  /\ SelectedRepoIndex' = idx
                   /\ confirmDeleteRepoDialog' = [repoName |-> <<Repositories[idx + 1].Name>>]
            /\ dialogType' = DialogConfirmDeleteRepo
            /\ errorMsg' = Empty
            /\ successMsg' = Empty
            /\ UNCHANGED <<confirmDeleteDialog, quit>>
       ELSE /\ Len(Worktrees) > 0
            /\ Len(Repositories) > 0
            /\ SelectedRepoIndex' = GetSelectedRepoIndex(Repositories, SelectedRepoIndex)
            /\ IF SelectedWTIndex >= Len(Worktrees)
               THEN \* Worktrees[SelectedWTIndex] panics: index out of range
                    /\ quit' = "panic"
                    /\ UNCHANGED <<dialogType, confirmDeleteDialog, msgVars>>
               ELSE IF CanOfferDelete(SelectedWTIndex)
               THEN /\ LET selectedWT == Worktrees[SelectedWTIndex + 1]
                       IN  confirmDeleteDialog' =
                             [worktreeName |-> <<selectedWT.Name>>,
                              branchName |-> <<selectedWT.Branch>>]
                    /\ dialogType' = DialogConfirmDelete
                    /\ errorMsg' = Empty
                    /\ successMsg' = Empty
                    /\ UNCHANGED quit
               ELSE \* the main worktree (first one) is not offered for deletion
                    UNCHANGED <<dialogType, confirmDeleteDialog, msgVars, quit>>
            /\ UNCHANGED confirmDeleteRepoDialog
    /\ UNCHANGED <<cfgVars, SelectedWTIndex, ActivePane, Worktrees, addRepoDialog,
                   addWorktreeDialog, editScriptDialog, noteVars, pending, envVars>>

\* ------------------------------------------------------- View and messages
\* Model.View on a terminal large enough to render: renderWorktreesPanel
\* calls GetSelectedRepo, which clamps the repository cursor
View ==
    /\ UNCHANGED pureVars
    /\ quit = "no"
    /\ IF SelectedRepoIndex # GetSelectedRepoIndex(Repositories, SelectedRepoIndex)
       THEN /\ SelectedRepoIndex' = GetSelectedRepoIndex(Repositories, SelectedRepoIndex)
            /\ calls' = <<>>
            /\ last' = NoHandler
            /\ UNCHANGED <<cfgVars, SelectedWTIndex, ActivePane, Worktrees, dlgVars,
                           noteVars, msgVars, pending, quit, envVars>>
       ELSE UNCHANGED vars

\* Update on an errorMsg or a successMsg a returned command produced
DeliverMsg ==
    /\ UNCHANGED pureVars
    /\ quit = "no"
    /\ \E i \in 1..Len(pending) :
         /\ IF pending[i].kind = "error"
            THEN errorMsg' = pending[i].text /\ UNCHANGED successMsg
            ELSE successMsg' = pending[i].text /\ UNCHANGED errorMsg
         /\ pending' = RemoveAt(pending, i - 1)
    /\ calls' = <<>>
    /\ last' = NoHandler
    /\ UNCHANGED <<cfgVars, selVars, dlgVars, noteVars, quit, envVars>>

\* ------------------------------------------------ package strings: trimming
\* the white space strings.TrimSpace cuts
SpaceChars == {" "}

RECURSIVE TrimLeft(_, _)
\* strings.TrimLeft
TrimLeft(s, cutset) ==
    IF s # <<>> /\ Head(s) \in cutset THEN TrimLeft(Tail(s), cutset) ELSE s

RECURSIVE TrimRight(_, _)
\* strings.TrimRight
TrimRight(s, cutset) ==
    IF s # <<>> /\ s[Len(s)] \in cutset
    THEN TrimRight(SubSeq(s, 1, Len(s) - 1), cutset)
    ELSE s

\* strings.Trim
Trim(s, cutset) == TrimRight(TrimLeft(s, cutset), cutset)

\* strings.TrimSpace
TrimSpace(s) == Trim(s, SpaceChars)

\* --------------------------------------------------- inline notes editing
\* the texts the user leaves in a text area
Texts == {Empty, SomeText}

\* what the notes text area holds when the user leaves it: nothing, only
\* white space, a text, or a text with white space around it
NotesValues == {Empty, <<" ">>, SomeText, <<" ">> \o SomeText \o <<" ">>}

\* handleNotesEditingKeys, default case: the key goes to the text area
NotesInput ==
    /\ UNCHANGED pureVars
    /\ CanHandleKey
    /\ editingNotes
    /\ \E t \in NotesValues : notesTextarea' = t /\ t # notesTextarea
    /\ calls' = <<>>
    /\ last' = NoHandler
    /\ UNCHANGED <<cfgVars, selVars, dlgVars, editingNotes, editingWorktreePath,
                   msgVars, pending, quit, envVars>>

\* handleNotesEditingKeys, "esc" and "ctrl+s": save the notes and leave
NotesSave ==
    /\ UNCHANGED pureVars
    /\ CanHandleKey
    /\ editingNotes
    /\ WorktreeNotes' = SetWorktreeNotes(WorktreeNotes, editingWorktreePath,
                                         TrimSpace(notesTextarea))
    /\ \E saveOk \in BOOLEAN :
         /\ calls' = <<Call("Save", <<>>, saveOk)>>
         /\ IF saveOk
            THEN successMsg' = <<"Notes saved">> /\ errorMsg' = Empty
            ELSE errorMsg' = <<"Failed to save notes">> /\ successMsg' = Empty
    /\ editingNotes' = FALSE
    /\ editingWorktreePath' = Empty
    /\ notesTextarea' = Empty
    /\ last' = "notes-save"
    /\ UNCHANGED <<Repositories, selVars, dlgVars, pending, quit, envVars>>

\* ------------------------------------------------- handleDialogKeys: keys
InDialog == CanHandleKey /\ ~editingNotes /\ dialogType # DialogNone

\* the dialogs with text fields, and the two confirmations
FreeTextDialogs == {DialogAddRepo, DialogAddWorktree, DialogEditScript}
ConfirmDialogs == {DialogConfirmDelete, DialogConfirmDeleteRepo}

\* the keys that print a character ("x" is any key without a case of its
\* own), and the keys that move the focus in the add-repository dialog
PrintableKeys == {"y", "n", "s", "x"}
FocusKeys == {"tab", "shift+tab", "enter", "up", "down"}

\* the switch of handleDialogKeys: what a key does in a dialog
KeyEffect(dtype, key) ==
    CASE key = "ctrl+c" -> "quit"
      [] key = "esc" -> "cancel"
      [] key = "n" /\ dtype \in ConfirmDialogs -> "cancel"
      [] key = "y" -> IF dtype \in ConfirmDialogs THEN "confirm" ELSE "ignore"
      [] key = "ctrl+s" -> IF dtype \in FreeTextDialogs THEN "save" ELSE "ignore"
      [] OTHER -> IF dtype \in FreeTextDialogs THEN "forward" ELSE "ignore"

\* "ctrl+c" in a dialog
DialogQuit ==
    /\ UNCHANGED pureVars
    /\ InDialog
    /\ KeyEffect(dialogType, "ctrl+c") = "quit"
    /\ Exit("dialog")

\* a cancel that also puts both cursors back on the first entry
DialogCancelResetsCursors ==
    /\ UNCHANGED pureVars
    /\ InDialog
    /\ \E key \in {"esc", "n"} :
         /\ KeyEffect(dialogType, key) = "cancel"
         /\ last' = "cancel"
    /\ dialogType' = DialogNone
    /\ addRepoDialog' = NoAddRepoDialog
    /\ addWorktreeDialog' = NoAddWorktreeDialog
    /\ confirmDeleteDialog' = NoConfirmDeleteDialog
    /\ confirmDeleteRepoDialog' = NoConfirmDeleteRepoDialog
    /\ editScriptDialog' = NoEditScriptDialog
    /\ errorMsg' = Empty
    /\ successMsg' = Empty
    /\ calls' = <<>>
    /\ SelectedRepoIndex' = 0
    /\ SelectedWTIndex' = 0
    /\ UNCHANGED <<cfgVars, Worktrees, ActivePane, noteVars, pending, quit, envVars>>

\* "esc" in any dialog, "n" in the two confirmation dialogs
DialogCancel ==
    /\ UNCHANGED pureVars
    /\ InDialog
    /\ \E key \in {"esc", "n"} :
         /\ KeyEffect(dialogType, key) = "cancel"
         /\ last' = "cancel"
    /\ dialogType' = DialogNone
    /\ addRepoDialog' = NoAddRepoDialog
    /\ addWorktreeDialog' = NoAddWorktreeDialog
    /\ confirmDeleteDialog' = NoConfirmDeleteDialog
    /\ confirmDeleteRepoDialog' = NoConfirmDeleteRepoDialog
    /\ editScriptDialog' = NoEditScriptDialog
    /\ errorMsg' = Empty
    /\ successMsg' = Empty
    /\ calls' = <<>>
    /\ UNCHANGED <<cfgVars, selVars, noteVars, pending, quit, envVars>>

\* the names the user types into the name field, and the branch names into
\* the branch field: a text is the sequence of its space-separated words
NameTexts == {Empty} \cup {<<n>> : n \in RepoNames}
PathTexts == {Empty, <<"path">>}
BranchTexts == {Empty} \cup {<<b>> : b \in BranchNames} \cup {<<b, b>> : b \in BranchNames}

\* any other key in a free-text dialog: the dialog's Update
DialogInputOver(nameTexts, branchTexts) ==
    /\ UNCHANGED pureVars
    /\ InDialog
    /\ dialogType \in FreeTextDialogs
    /\ \E key \in PrintableKeys : KeyEffect(dialogType, key) = "forward"
    /\ CASE dialogType = DialogAddRepo ->
              /\ \E d \in [focusIndex : {0, 1}, name : nameTexts, path : PathTexts] :
                    /\ d # addRepoDialog
                    /\ \/ /\ \E key \in FocusKeys :
                                KeyEffect(dialogType, key) = "forward"
                          /\ d.focusIndex # addRepoDialog.focusIndex
                          /\ d.name = addRepoDialog.name /\ d.path = addRepoDialog.path
                       \/ d.focusIndex = 0 /\ addRepoDialog.focusIndex = 0
                          /\ d.path = addRepoDialog.path
                       \/ d.focusIndex = 1 /\ addRepoDialog.focusIndex = 1
                          /\ d.name = addRepoDialog.name
                    /\ addRepoDialog' = d
              /\ UNCHANGED <<addWorktreeDialog, editScriptDialog>>
         [] dialogType = DialogAddWorktree ->
              /\ \E t \in branchTexts :
                    /\ t # addWorktreeDialog.branch
                    /\ addWorktreeDialog' = [branch |-> t]
              /\ UNCHANGED <<addRepoDialog, editScriptDialog>>
         [] OTHER ->
              /\ \E t \in Texts :
                    /\ t # editScriptDialog.script
                    /\ editScriptDialog' = [editScriptDialog EXCEPT !.script = t]
              /\ UNCHANGED <<addRepoDialog, addWorktreeDialog>>
    /\ errorMsg' = Empty
    /\ successMsg' = Empty
    /\ calls' = <<>>
    /\ last' = NoHandler
    /\ UNCHANGED <<cfgVars, selVars, dialogType, confirmDeleteDialog,
                   confirmDeleteRepoDialog, noteVars, pending, quit, envVars>>

DialogInput == DialogInputOver(NameTexts, BranchTexts)

\* ------------------------------------------------------ the git environment
\* `git worktree remove --force` can succeed only for a worktree that the
\* repository at the given directory has registered (never the primary one)
CanRemoveWorktree(n, path, dirs, reg) ==
    /\ n \in dirs
    /\ \E k \in 1..Len(reg[n]) : WorktreePath(n, reg[n][k]) = path

\* the registry after a successful `git worktree remove`
RemoveWorktree(reg, n, path) ==
    [reg EXCEPT ![n] = SelectSeq(@, LAMBDA b : WorktreePath(n, b) # path)]

\* ------------------------------------------------------ Model.deleteWorktree

\* whether deleteWorktree goes on after DeleteBranch returned ok
BranchFailureAborts(ok) == ~ok

\* "y" in the confirm-delete dialog
deleteWorktree ==
    /\ UNCHANGED pureVars
    /\ InDialog
    /\ dialogType = DialogConfirmDelete
    /\ KeyEffect(dialogType, "y") = "confirm"
    /\ last' = "deleteWorktree"
    /\ LET idx == GetSelectedRepoIndex(Repositories, SelectedRepoIndex)
       IN
       /\ SelectedRepoIndex' = idx
       /\ IF Len(Repositories) = 0
          THEN /\ pending' = Append(pending, ErrorMsg(<<"No repository selected">>))
               /\ calls' = <<>>
               /\ UNCHANGED <<WorktreeNotes, SelectedWTIndex, Worktrees, dlgVars, errorMsg,
                              registry>>
          ELSE IF Len(Worktrees) = 0 \/ SelectedWTIndex >= Len(Worktrees)
          THEN /\ pending' = Append(pending, ErrorMsg(<<"No worktree selected">>))
               /\ calls' = <<>>
               /\ UNCHANGED <<WorktreeNotes, SelectedWTIndex, Worktrees, dlgVars, errorMsg,
                              registry>>
          ELSE
            LET repo == Repositories[idx + 1]
                selectedWT == Worktrees[SelectedWTIndex + 1]
                rmCall(ok) == Call("RemoveWorktree", selectedWT.Path, ok)
                brCall(ok) == Call("DeleteBranch", <<repo.Path, selectedWT.Branch>>, ok)
                reg1 == RemoveWorktree(registry, repo.Name, selectedWT.Path)
            IN
            \E rmOk \in BOOLEAN :
              /\ rmOk => CanRemoveWorktree(repo.Name, selectedWT.Path, gitDirs, registry)
              /\ IF ~rmOk
                 THEN /\ pending' = Append(pending, ErrorMsg(<<"Failed to remove worktree">>))
                      /\ calls' = <<rmCall(FALSE)>>
                      /\ UNCHANGED <<WorktreeNotes, SelectedWTIndex, Worktrees, dlgVars,
                                     errorMsg, registry>>
                 ELSE
                 \E brOk \in BOOLEAN :
                   IF BranchFailureAborts(brOk)
                   THEN /\ pending' = Append(pending, ErrorMsg(<<"Failed to delete branch">>))
                        /\ calls' = <<rmCall(TRUE), brCall(brOk)>>
                        /\ registry' = reg1
                        /\ UNCHANGED <<WorktreeNotes, SelectedWTIndex, Worktrees, dlgVars,
                                       errorMsg>>
                   ELSE
                   \E saveOk \in BOOLEAN, listOk \in BOOLEAN :
                     /\ WorktreeNotes' = DeleteWorktreeNotes(WorktreeNotes, selectedWT.Path)
                     /\ registry' = reg1
                     /\ calls' = <<rmCall(TRUE), brCall(brOk), Call("Save", <<>>, saveOk),
                                   Call("ListWorktrees", repo.Path, listOk)>>
                     /\ IF ~listOk
                        THEN /\ pending' = Append(pending,
                                                   ErrorMsg(<<"Failed to list worktrees">>))
                             /\ UNCHANGED <<SelectedWTIndex, Worktrees, dlgVars, errorMsg>>
                        ELSE LET worktrees == ListWorktrees(repo.Name, reg1)
                             IN  /\ Worktrees' = worktrees
                                 /\ SelectedWTIndex' =
                                      ClampWTIndex(SelectedWTIndex, Len(worktrees))
                                 /\ dialogType' = DialogNone
                                 /\ confirmDeleteDialog' = NoConfirmDeleteDialog
                                 /\ errorMsg' = Empty
                                 /\ UNCHANGED <<addRepoDialog, addWorktreeDialog,
                                                confirmDeleteRepoDialog, editScriptDialog,
                                                pending>>
    /\ UNCHANGED <<Repositories, ActivePane, noteVars, successMsg, quit, gitDirs>>

\* ----------------------------------------------------- Model.deleteRepository
\* the index of the listing the worktree loop starts to delete at
\* (1-based here: the loop skips i == 0, the main worktree)
FirstDeleted == 2

\* DeleteLoop that gives up at the first removal that fails
RECURSIVE DeleteLoopStopsAtFailure(_, _, _, _, _, _)
DeleteLoopStopsAtFailure(repo, wts, k, rmSet, brSet, acc) ==
    IF k > Len(wts) THEN acc
    ELSE IF k \in rmSet
    THEN DeleteLoopStopsAtFailure(repo, wts, k + 1, rmSet, brSet,
           [reg |-> RemoveWorktree(acc.reg, repo.Name, wts[k].Path),
            errors |-> acc.errors,
            calls |-> acc.calls \o
                      <<Call("RemoveWorktree", wts[k].Path, TRUE),
                        Call("DeleteBranch", <<repo.Path, wts[k].Branch>>, k \in brSet)>>])
    ELSE [reg |-> acc.reg,
          errors |-> Append(acc.errors, wts[k].Name),
          calls |-> acc.calls \o <<Call("RemoveWorktree", wts[k].Path, FALSE)>>]

\* the loop over the listed worktrees: removal succeeds for the indices in
\* rmSet, branch deletion for those in brSet; acc carries the registry,
\* the errors collected and the calls made so far
\* DeleteLoop without the `continue` after a failed removal: the branch of
\* a worktree that could not be removed is deleted all the same
RECURSIVE DeleteLoopNoContinue(_, _, _, _, _, _)
DeleteLoopNoContinue(repo, wts, k, rmSet, brSet, acc) ==
    IF k > Len(wts) THEN acc
    ELSE DeleteLoopNoContinue(repo, wts, k + 1, rmSet, brSet,
           [reg |-> IF k \in rmSet
                    THEN RemoveWorktree(acc.reg, repo.Name, wts[k].Path) ELSE acc.reg,
            errors |-> IF k \in rmSet THEN acc.errors ELSE Append(acc.errors, wts[k].Name),
            calls |-> acc.calls \o
                      <<Call("RemoveWorktree", wts[k].Path, k \in rmSet),
                        Call("DeleteBranch", <<repo.Path, wts[k].Branch>>, k \in brSet)>>])

RECURSIVE DeleteLoop(_, _, _, _, _, _)
DeleteLoop(repo, wts, k, rmSet, brSet, acc) ==
    IF k > Len(wts) THEN acc
    ELSE IF k \in rmSet
    THEN DeleteLoop(repo, wts, k + 1, rmSet, brSet,
           [reg |-> RemoveWorktree(acc.reg, repo.Name, wts[k].Path),
            errors |-> acc.errors,
            calls |-> acc.calls \o
                      <<Call("RemoveWorktree", wts[k].Path, TRUE),
                        Call("DeleteBranch", <<repo.Path, wts[k].Branch>>, k \in brSet)>>])
    ELSE DeleteLoop(repo, wts, k + 1, rmSet, brSet,
           [reg |-> acc.reg,
            errors |-> Append(acc.errors, wts[k].Name),
            calls |-> acc.calls \o <<Call("RemoveWorktree", wts[k].Path, FALSE)>>])

\* AbortsDeletion when the collected errors are ignored
AbortsDeletionNever(errors) == FALSE

\* "If we had errors deleting worktrees, don't proceed with repo deletion"
AbortsDeletion(errors) == Len(errors) > 0

\* os.IsNotExist(err) on the error ListWorktrees or git.DeleteRepository
\* returns: both build it with fmt.Errorf, which os.IsNotExist does not
\* look into, so it is false also when the directory is missing
IsNotExist(dirMissing) == FALSE

\* "Remove all notes for worktrees in this repository"
DeleteAllNotes(notes, wts) == {x \in notes : x.Path \notin {wts[k].Path : k \in 1..Len(wts)}}

\* "Adjust selected repository index"
ClampRepoIndex(idx, len) ==
    IF len = 0 THEN 0 ELSE IF idx >= len THEN len - 1 ELSE idx

\* repo.Name after the record was removed: repo points into the backing
\* array of the slice, whose elements append() has shifted down by one
NameAfterRemoval(repos, idx) ==
    IF idx + 1 < Len(repos) THEN repos[idx + 2].Name ELSE repos[idx + 1].Name

\* deleteRepository gives up: the dialog closes and the error is shown
AbortDeleteRepository(idx, text, reg, cs) ==
    /\ SelectedRepoIndex' = idx
    /\ dialogType' = DialogNone
    /\ confirmDeleteRepoDialog' = NoConfirmDeleteRepoDialog
    /\ pending' = Append(pending, ErrorMsg(text))
    /\ registry' = reg
    /\ calls' = cs
    /\ UNCHANGED <<cfgVars, SelectedWTIndex, Worktrees, errorMsg, gitDirs>>

\* "y" in the confirm-delete-repository dialog
deleteRepository ==
    /\ UNCHANGED pureVars
    /\ InDialog
    /\ dialogType = DialogConfirmDeleteRepo
    /\ KeyEffect(dialogType, "y") = "confirm"
    /\ last' = "deleteRepository"
    /\ IF Len(Repositories) = 0
       THEN /\ pending' = Append(pending, ErrorMsg(<<"No repository selected">>))
            /\ calls' = <<>>
            /\ UNCHANGED <<cfgVars, SelectedRepoIndex, SelectedWTIndex, Worktrees,
                           dialogType, confirmDeleteRepoDialog, errorMsg, envVars>>
       ELSE
       LET idx == GetSelectedRepoIndex(Repositories, SelectedRepoIndex)
           repo == Repositories[idx + 1]
           listCall(ok) == Call("ListWorktrees", repo.Path, ok)
       IN
       \E listOk \in BOOLEAN :
         /\ listOk => repo.Name \in gitDirs
         /\ IF ~listOk /\ ~IsNotExist(repo.Name \notin gitDirs)
            THEN AbortDeleteRepository(idx, <<"Errors during deletion",
                                              <<"Failed to list worktrees">>>>,
                                       registry, <<listCall(FALSE)>>)
            ELSE
            LET worktrees == IF listOk THEN ListWorktrees(repo.Name, registry) ELSE <<>>
            IN
            \E rmSet \in SUBSET (FirstDeleted..Len(worktrees)) :
            \E brSet \in SUBSET rmSet :
              LET loop == DeleteLoop(repo, worktrees, FirstDeleted, rmSet, brSet,
                                     [reg |-> registry, errors |-> <<>>,
                                      calls |-> <<listCall(listOk)>>])
              IN
              IF AbortsDeletion(loop.errors)
              THEN AbortDeleteRepository(idx, <<"Errors during deletion", loop.errors>>,
                                         loop.reg, loop.calls)
              ELSE
              \E delOk \in BOOLEAN :
                /\ delOk => repo.Name \in gitDirs
                /\ IF ~delOk /\ ~IsNotExist(repo.Name \notin gitDirs)
                   THEN AbortDeleteRepository(idx, <<"Failed to delete repository">>,
                          loop.reg,
                          Append(loop.calls, Call("DeleteRepository", repo.Path, FALSE)))
                   ELSE
                   LET repos1 == RemoveAt(Repositories, idx)
                       dirs1 == gitDirs \ {repo.Name}
                       reg1 == [loop.reg EXCEPT ![repo.Name] = <<>>]
                       cs1 == Append(loop.calls, Call("DeleteRepository", repo.Path, delOk))
                   IN
                   /\ WorktreeNotes' = DeleteAllNotes(WorktreeNotes, worktrees)
                   /\ Repositories' = repos1
                   /\ gitDirs' = dirs1
                   /\ registry' = reg1
                   /\ \E saveOk \in BOOLEAN :
                        IF ~saveOk
                        THEN /\ pending' = Append(pending,
                                                   ErrorMsg(<<"Failed to save config">>))
                             /\ SelectedRepoIndex' = idx
                             /\ calls' = Append(cs1, Call("Save", <<>>, FALSE))
                             /\ UNCHANGED <<SelectedWTIndex, Worktrees, dialogType,
                                            confirmDeleteRepoDialog, errorMsg>>
                        ELSE
                        \E listOk2 \in BOOLEAN :
                          LET idx1 == ClampRepoIndex(idx, Len(repos1))
                              lw == LoadWorktrees(repos1, idx1, SelectedWTIndex, dirs1,
                                                  reg1, listOk2)
                          IN  /\ SelectedRepoIndex' = idx1
                              /\ Worktrees' = lw.Worktrees
                              /\ SelectedWTIndex' = lw.SelectedWTIndex
                              /\ calls' = Append(cs1, Call("Save", <<>>, TRUE)) \o lw.calls
                              /\ dialogType' = DialogNone
                              /\ confirmDeleteRepoDialog' = NoConfirmDeleteRepoDialog
                              /\ errorMsg' = Empty
                              /\ pending' = Append(pending, SuccessMsg(
                                   <<"Repository deleted successfully",
                                     NameAfterRemoval(Repositories, idx)>>))
    /\ UNCHANGED <<ActivePane, addRepoDialog, addWorktreeDialog, confirmDeleteDialog,
                   editScriptDialog, noteVars, successMsg, quit>>

\* ----------------------------------------------------------- validation
\* AddRepoDialog.IsValid: the error text, Empty when valid
AddRepoInvalid(d) ==
    IF d.name = Empty THEN <<"Name is required">>
    ELSE IF d.path = Empty THEN <<"Path/URL is required">>
    ELSE Empty

\* AddWorktreeDialog.IsValid without the check for spaces
AddWorktreeInvalidSpacesAllowed(d) ==
    IF d.branch = Empty THEN <<"Branch name is required">> ELSE Empty

\* AddWorktreeDialog.IsValid: the error text, Empty when valid
AddWorktreeInvalid(d) ==
    IF d.branch = Empty THEN <<"Branch name is required">>
    ELSE IF Len(d.branch) > 1 THEN <<"Branch name cannot contain spaces">>
    ELSE Empty

\* a handler returns showError(text) and changes nothing else
OnlyError(text) ==
    /\ pending' = Append(pending, ErrorMsg(text))
    /\ calls' = <<>>
    /\ UNCHANGED <<cfgVars, selVars, dlgVars, noteVars, msgVars, quit, envVars>>

\* IsDuplicate without the loop over the list
IsDuplicateNever(repos, name) == FALSE

\* "Check for duplicate names"
IsDuplicate(repos, name) == \E k \in 1..Len(repos) : repos[k].Name = name

\* PathMissing without the os.Stat
PathMissingNever(repoType, name, dirs) == FALSE

\* "For local repos, verify path exists"
PathMissing(repoType, name, dirs) == repoType = "local" /\ name \notin dirs

\* ------------------------------------------------------- Model.saveRepository
\* "ctrl+s" in the add-repository dialog
\* a selection that goes to the first repository instead of the new one
SelectNewFirst(repos) == 0

\* the cursor saveRepository puts on the repository it has just appended
SelectNew(repos) == Len(repos) - 1

saveRepository ==
    /\ UNCHANGED pureVars
    /\ InDialog
    /\ dialogType = DialogAddRepo
    /\ KeyEffect(dialogType, "ctrl+s") = "save"
    /\ last' = "saveRepository"
    /\ IF AddRepoInvalid(addRepoDialog) # Empty
       THEN OnlyError(AddRepoInvalid(addRepoDialog))
       ELSE
       LET name == addRepoDialog.name[1]
           repoType == RepoType(name)
           newRepo == [Name |-> name, Path |-> RepoPath(name), Type |-> repoType,
                       PostCreateScript |-> Empty]
       IN
       IF IsDuplicate(Repositories, name)
       THEN OnlyError(<<"Repository with this name already exists">>)
       ELSE IF PathMissing(repoType, name, gitDirs)
       THEN OnlyError(<<"Path does not exist">>)
       ELSE
       \E cloneOk \in BOOLEAN :
         /\ repoType = "local" => cloneOk
         /\ (repoType = "remote" /\ name \in gitDirs) => ~cloneOk
         /\ IF ~cloneOk
            THEN /\ pending' = Append(pending, ErrorMsg(<<"Failed to clone repository">>))
                 /\ calls' = <<Call("CloneRepository", RepoPath(name), FALSE)>>
                 /\ UNCHANGED <<cfgVars, selVars, dlgVars, errorMsg, envVars>>
            ELSE
            LET repos1 == Append(Repositories, newRepo)
                dirs1 == gitDirs \cup {name}
                reg1 == IF repoType = "remote" THEN [registry EXCEPT ![name] = <<>>]
                        ELSE registry
                cs1 == IF repoType = "remote"
                       THEN <<Call("CloneRepository", RepoPath(name), TRUE)>> ELSE <<>>
            IN
            /\ Repositories' = repos1
            /\ gitDirs' = dirs1
            /\ registry' = reg1
            /\ \E saveOk \in BOOLEAN :
                 IF ~saveOk
                 THEN /\ pending' = Append(pending, ErrorMsg(<<"Failed to save config">>))
                      /\ calls' = Append(cs1, Call("Save", <<>>, FALSE))
                      /\ UNCHANGED <<selVars, dlgVars, errorMsg>>
                 ELSE
                 \E listOk \in BOOLEAN :
                   LET idx1 == SelectNew(repos1)
                       lw == LoadWorktrees(repos1, idx1, SelectedWTIndex, dirs1, reg1, listOk)
                   IN  /\ SelectedRepoIndex' = idx1
                       /\ Worktrees' = lw.Worktrees
                       /\ SelectedWTIndex' = lw.SelectedWTIndex
                       /\ calls' = Append(cs1, Call("Save", <<>>, TRUE)) \o lw.calls
                       /\ dialogType' = DialogNone
                       /\ addRepoDialog' = NoAddRepoDialog
                       /\ errorMsg' = Empty
                       /\ pending' = Append(pending, SuccessMsg(
                            <<"Repository added successfully", name>>))
                       /\ UNCHANGED <<ActivePane, addWorktreeDialog, confirmDeleteDialog,
                                      confirmDeleteRepoDialog, editScriptDialog>>
         /\ UNCHANGED <<WorktreeNotes, noteVars, successMsg, quit>>

\* --------------------------------------------------------- git.AddWorktree
\* BaseRef that knows only origin/main
BaseRefMain(isRemote, originMainExists) == "origin/main"

\* the base reference of a branch that does not exist yet
BaseRef(isRemote, originMainExists) ==
    IF isRemote
    THEN IF originMainExists THEN "origin/main" ELSE "origin/master"
    ELSE "current branch"

\* AddCommand that creates the branch whether it exists or not
AddCommandAlwaysCreates(path, branch, exists, isRemote, originMainExists) ==
    [path |-> path, branch |-> branch, create |-> TRUE,
     base |-> BaseRef(isRemote, originMainExists)]

\* the `git worktree add` AddWorktree runs for a branch that exists or not
AddCommand(path, branch, exists, isRemote, originMainExists) ==
    IF exists
    THEN [path |-> path, branch |-> branch, create |-> FALSE, base |-> "none"]
    ELSE [path |-> path, branch |-> branch, create |-> TRUE,
          base |-> BaseRef(isRemote, originMainExists)]

\* the two checks AddWorktree starts with: does the branch exist (the
\* answer is the outcome of the call), does the target path exist
Checks(repo, branch, path, exists, pathExists) ==
    <<Call("BranchExists", <<repo.Path, branch>>, exists),
      Call("Stat", path, pathExists)>>

\* RejectsExistingPath without the check
RejectsExistingPathNever(pathExists) == FALSE

\* "Check if path already exists"
RejectsExistingPath(pathExists) == pathExists

\* the script of the repository before the reload of the list
ScriptThenReload(cs, listCall, scriptCalls) == cs \o scriptCalls \o <<listCall>>

\* saveWorktree reloads the list, then runs the post-create script
ReloadThenScript(cs, listCall, scriptCalls) == Append(cs, listCall) \o scriptCalls

\* ---------------------------------------------------------- Model.saveWorktree
\* "ctrl+s" in the add-worktree dialog
saveWorktree ==
    /\ UNCHANGED pureVars
    /\ InDialog
    /\ dialogType = DialogAddWorktree
    /\ KeyEffect(dialogType, "ctrl+s") = "save"
    /\ last' = "saveWorktree"
    /\ IF AddWorktreeInvalid(addWorktreeDialog) # Empty
       THEN OnlyError(AddWorktreeInvalid(addWorktreeDialog))
       ELSE IF Len(Repositories) = 0
       THEN OnlyError(<<"No repository selected">>)
       ELSE
       LET idx == GetSelectedRepoIndex(Repositories, SelectedRepoIndex)
           repo == Repositories[idx + 1]
           branch == addWorktreeDialog.branch[1]
           isRemote == repo.Type = "remote"
           path == WorktreePath(repo.Name, branch)
           registered == \E k \in 1..Len(registry[repo.Name]) :
                             registry[repo.Name][k] = branch
           failed(text, cs) ==
               /\ pending' = Append(pending, ErrorMsg(text))
               /\ calls' = cs
               /\ UNCHANGED <<SelectedWTIndex, Worktrees, dlgVars, errorMsg, registry>>
       IN
       /\ SelectedRepoIndex' = idx
       /\ \E exists \in BOOLEAN, pathExists \in BOOLEAN :
            /\ exists => repo.Name \in gitDirs
            /\ registered => (exists /\ pathExists)
            /\ IF RejectsExistingPath(pathExists)
               THEN failed(<<"Failed to create worktree", "path already exists">>,
                           Checks(repo, branch, path, exists, pathExists))
               ELSE
               \E originMainExists \in BOOLEAN, curOk \in BOOLEAN, addOk \in BOOLEAN :
                 LET lookups ==
                         Checks(repo, branch, path, exists, pathExists) \o
                         (IF exists THEN <<>>
                          ELSE IF isRemote
                          THEN <<Call("remoteBranchExists", "origin/main", originMainExists)>>
                          ELSE <<Call("GetCurrentBranch", repo.Path, curOk)>>)
                     cmd == AddCommand(path, branch, exists, isRemote, originMainExists)
                 IN
                 /\ (exists \/ ~isRemote) => originMainExists
                 /\ (exists \/ isRemote) => curOk
                 /\ originMainExists => repo.Name \in gitDirs
                 /\ (curOk /\ ~exists /\ ~isRemote) => repo.Name \in gitDirs
                 /\ addOk => (curOk /\ repo.Name \in gitDirs)
                 /\ IF ~curOk
                    THEN failed(<<"Failed to create worktree", "failed to get current branch">>,
                                lookups)
                    ELSE IF ~addOk
                    THEN failed(<<"Failed to create worktree", "failed to add worktree">>,
                                Append(lookups, Call("AddWorktree", cmd, FALSE)))
                    ELSE
                    LET reg1 == [registry EXCEPT ![repo.Name] = Append(@, branch)]
                        cs1 == Append(lookups, Call("AddWorktree", cmd, TRUE))
                    IN
                    /\ registry' = reg1
                    /\ \E listOk \in BOOLEAN :
                         IF ~listOk
                         THEN /\ pending' = Append(pending,
                                                    ErrorMsg(<<"Failed to list worktrees">>))
                              /\ calls' = Append(cs1, Call("ListWorktrees", repo.Path, FALSE))
                              /\ UNCHANGED <<SelectedWTIndex, Worktrees, dlgVars, errorMsg>>
                         ELSE
                         \E scriptOk \in BOOLEAN :
                           /\ repo.PostCreateScript = Empty => scriptOk
                           /\ Worktrees' = ListWorktrees(repo.Name, reg1)
                           /\ calls' = ReloadThenScript(cs1,
                                  Call("ListWorktrees", repo.Path, TRUE),
                                  IF repo.PostCreateScript # Empty
                                  THEN <<Call("ExecutePostCreateScript", path, scriptOk)>>
                                  ELSE <<>>)
                           /\ dialogType' = DialogNone
                           /\ addWorktreeDialog' = NoAddWorktreeDialog
                           /\ errorMsg' = Empty
                           /\ pending' = Append(pending,
                                IF scriptOk
                                THEN SuccessMsg(<<"Worktree created successfully">>)
                                ELSE ErrorMsg(<<"Worktree created but script failed">>))
                           /\ UNCHANGED <<SelectedWTIndex, addRepoDialog,
                                          confirmDeleteDialog, confirmDeleteRepoDialog,
                                          editScriptDialog>>
       /\ UNCHANGED <<cfgVars, ActivePane, noteVars, successMsg, quit, gitDirs>>

\* ------------------------------------------------------------ Model.saveScript
\* "ctrl+s" in the edit-script dialog
saveScript ==
    /\ UNCHANGED pureVars
    /\ InDialog
    /\ dialogType = DialogEditScript
    /\ KeyEffect(dialogType, "ctrl+s") = "save"
    /\ last' = "saveScript"
    /\ IF Len(Repositories) = 0
       THEN OnlyError(<<"No repository selected">>)
       ELSE
       LET idx == GetSelectedRepoIndex(Repositories, SelectedRepoIndex)
       IN
       /\ SelectedRepoIndex' = idx
       /\ Repositories' = [Repositories EXCEPT
                             ![idx + 1].PostCreateScript = editScriptDialog.script]
       /\ \E saveOk \in BOOLEAN :
            /\ calls' = <<Call("Save", <<>>, saveOk)>>
            /\ IF ~saveOk
               THEN /\ pending' = Append(pending, ErrorMsg(<<"Failed to save config">>))
                    /\ UNCHANGED <<dlgVars, errorMsg>>
               ELSE /\ dialogType' = DialogNone
                    /\ editScriptDialog' = NoEditScriptDialog
                    /\ errorMsg' = Empty
                    /\ pending' = Append(pending, SuccessMsg(<<"Post-create script saved">>))
                    /\ UNCHANGED <<addRepoDialog, addWorktreeDialog, confirmDeleteDialog,
                                   confirmDeleteRepoDialog>>
       /\ UNCHANGED <<WorktreeNotes, SelectedWTIndex, ActivePane, Worktrees, noteVars,
                      successMsg, quit, envVars>>

\* ------------------------------------------------------------ specification
Next ==
    \/ KeyQuit
    \/ KeyPane
    \/ KeyMove
    \/ KeyYank
    \/ KeyNotes
    \/ KeyScript
    \/ KeyPlus
    \/ KeyMinus
    \/ View
    \/ DeliverMsg
    \/ NotesInput
    \/ NotesSave
    \/ DialogQuit
    \/ DialogCancel
    \/ DialogInput
    \/ deleteWorktree
    \/ deleteRepository
    \/ saveRepository
    \/ saveWorktree
    \/ saveScript

Spec == Init /\ [][Next]_vars

\* the same program over fewer repositories with more branches each, where
\* the worktree list gets long enough to shrink by more than one entry
FewRepos == 1

MoreBranches == 2

FewNameTexts == {Empty} \cup {<<n>> : n \in 1..FewRepos}

MoreBranchTexts ==
    {Empty} \cup {<<b>> : b \in 1..MoreBranches} \cup {<<b, b>> : b \in 1..MoreBranches}

InitMoreBranches == InitOver(1..FewRepos, 1..MoreBranches)

NextMoreBranches ==
    \/ KeyQuit
    \/ KeyPane
    \/ KeyMove
    \/ KeyYank
    \/ KeyNotes
    \/ KeyScript
    \/ KeyPlus
    \/ KeyMinus
    \/ View
    \/ DeliverMsg
    \/ NotesInput
    \/ NotesSave
    \/ DialogQuit
    \/ DialogCancel
    \/ DialogInputOver(FewNameTexts, MoreBranchTexts)
    \/ deleteWorktree
    \/ deleteRepository
    \/ saveRepository
    \/ saveWorktree
    \/ saveScript

SpecMoreBranches == InitMoreBranches /\ [][NextMoreBranches]_vars

\* ===================================================== names and storage
\* A Go string is the sequence of its characters.  The naming functions are
\* the three sanitizers and the two places that build a directory from
\* them; the storage functions are the file-based scripts and notes of the
\* config package.  Both are specified on their own, by calling them on
\* bounded inputs: the key handlers above work on abstract names and paths.

\* length of the names the sanitizers are called with
MaxLen == 3
\* length of the repository and branch names a directory is built from
MaxSegLen == 2
\* number of files the scripts and notes directories hold together
MaxFiles == 2

LowerLetters ==
    <<"a", "b", "c", "d", "e", "f", "g", "h", "i", "j", "k", "l", "m",
      "n", "o", "p", "q", "r", "s", "t", "u", "v", "w", "x", "y", "z">>
UpperLetters ==
    <<"A", "B", "C", "D", "E", "F", "G", "H", "I", "J", "K", "L", "M",
      "N", "O", "P", "Q", "R", "S", "T", "U", "V", "W", "X", "Y", "Z">>
DigitChars == {"0", "1", "2", "3", "4", "5", "6", "7", "8", "9"}

\* the characters the class [a-zA-Z0-9\-] of sanitizeName matches, which are
\* the ones sanitizeRepoName keeps
NameChars == Range(LowerLetters) \cup Range(UpperLetters) \cup DigitChars \cup {"-"}

\* the characters the class [a-zA-Z0-9-_] of storageNameCleaner matches
StorageChars == NameChars \cup {"_"}

\* the characters names are made of here: a lower-case and an upper-case
\* letter, a digit, the dash, the underscore, a space and a slash
Alphabet == {"a", "B", "7", "-", "_", " ", "/"}

\* all strings of at most n characters
StringsUpTo(n) == UNION {[1..k -> Alphabet] : k \in 0..n}

MyRepo == <<"M", "y", " ", "R", "e", "p", "o">>
FeatureNewThing ==
    <<"f", "e", "a", "t", "u", "r", "e", "/", "n", "e", "w", "-", "t", "h", "i", "n", "g">>

\* the names the sanitizers are called with
NameInputs == StringsUpTo(MaxLen) \cup {MyRepo, FeatureNewThing}

\* the (repository name, branch) pairs a worktree directory is built from
SegmentInputs ==
    (StringsUpTo(MaxSegLen) \X StringsUpTo(MaxSegLen)) \cup {<<MyRepo, FeatureNewThing>>}

\* ------------------------------------------------------- package strings
\* strings.ToLower
ToLower(s) ==
    [k \in 1..Len(s) |->
       IF \E j \in 1..26 : UpperLetters[j] = s[k]
       THEN LowerLetters[CHOOSE j \in 1..26 : UpperLetters[j] = s[k]]
       ELSE s[k]]

\* strings.Contains(s, "--")
ContainsDoubled(s) == \E k \in 1..(Len(s) - 1) : s[k] = "-" /\ s[k + 1] = "-"

RECURSIVE ReplaceDoubled(_)
\* strings.ReplaceAll(s, "--", "-"): one pass, left to right
ReplaceDoubled(s) ==
    IF Len(s) < 2 THEN s
    ELSE IF s[1] = "-" /\ s[2] = "-"
    THEN <<"-">> \o ReplaceDoubled(SubSeq(s, 3, Len(s)))
    ELSE <<Head(s)>> \o ReplaceDoubled(Tail(s))

RECURSIVE CollapseLoop(_)
\* for strings.Contains(s, "--") { s = strings.ReplaceAll(s, "--", "-") }
CollapseLoop(s) ==
    IF ContainsDoubled(s) THEN CollapseLoop(ReplaceDoubled(s)) ELSE s

RECURSIVE ReplaceRuns(_, _, _)
\* regexp [^keep]+ .ReplaceAllString(s, "-"): every maximal run of
\* characters outside keep becomes one dash; inRun: the character before
\* was part of such a run
ReplaceRuns(s, keep, inRun) ==
    IF s = <<>> THEN <<>>
    ELSE IF Head(s) \in keep
    THEN <<Head(s)>> \o ReplaceRuns(Tail(s), keep, FALSE)
    ELSE (IF inRun THEN <<>> ELSE <<"-">>) \o ReplaceRuns(Tail(s), keep, TRUE)

RECURSIVE CollapseDashes(_, _)
\* regexp -+ .ReplaceAllString(s, "-"): every run of dashes becomes one
CollapseDashes(s, inRun) ==
    IF s = <<>> THEN <<>>
    ELSE IF Head(s) # "-"
    THEN <<Head(s)>> \o CollapseDashes(Tail(s), FALSE)
    ELSE (IF inRun THEN <<>> ELSE <<"-">>) \o CollapseDashes(Tail(s), TRUE)

\* the loop of sanitizeRepoName: every character outside keep becomes a dash
ReplaceEach(s, keep) == [k \in 1..Len(s) |-> IF s[k] \in keep THEN s[k] ELSE "-"]

\* ------------------------------------------------------------ sanitizers
\* git.sanitizeName
sanitizeName(name) ==
    ToLower(CollapseDashes(Trim(ReplaceRuns(name, NameChars, FALSE), {"-"}), FALSE))

\* ui.sanitizeRepoName
sanitizeRepoName(name) ==
    ToLower(CollapseLoop(Trim(ReplaceEach(name, NameChars), {"-"})))

Unnamed == <<"u", "n", "n", "a", "m", "e", "d">>

\* config.sanitizeStorageName
sanitizeStorageName(name) ==
    LET cleaned == ReplaceRuns(TrimSpace(name), StorageChars, FALSE)
        collapsed == CollapseLoop(Trim(cleaned, {"-"}))
    IN  IF collapsed = <<>> THEN Unnamed ELSE ToLower(collapsed)

\* filepath.Join(dir, elem) for a dir of one element and an elem without
\* separators: an empty elem is ignored
Join(dir, elem) == IF elem = <<>> THEN <<dir>> ELSE <<dir, elem>>

\* Config.RootDirectory
RootDir == <<"r", "o", "o", "t">>

\* git.AddWorktree: sanitizedRepo, sanitizedBranch, worktreeName and
\* worktreePath
WorktreeDir(repoName, branch) ==
    LET sanitizedRepo == sanitizeName(repoName)
        sanitizedBranch == sanitizeName(branch)
        worktreeName == sanitizedRepo \o <<"-">> \o sanitizedBranch
    IN  [sanitizedRepo |-> sanitizedRepo, sanitizedBranch |-> sanitizedBranch,
         worktreeName |-> worktreeName, worktreePath |-> Join(RootDir, worktreeName)]

\* saveRepository for a remote repository: sanitizedName and repoPath, the
\* clone target
CloneTarget(name) ==
    LET sanitizedName == sanitizeRepoName(name)
    IN  [sanitizedName |-> sanitizedName, repoPath |-> Join(RootDir, sanitizedName)]

\* what `applied` holds after a call of fn that returned out without error
Returned(fn, args, out) ==
    [name |-> fn, args |-> args, out |-> out, err |-> FALSE, fault |-> FALSE]

\* a naming function is called and returns; the functions keep no state, so
\* one call at a time shows all they do
CallSanitizeName ==
    /\ applied = NotApplied
    /\ \E name \in NameInputs :
         applied' = Returned("sanitizeName", <<name>>, sanitizeName(name))
    /\ UNCHANGED <<files, uiVars>>

CallSanitizeRepoName ==
    /\ applied = NotApplied
    /\ \E name \in NameInputs :
         applied' = Returned("sanitizeRepoName", <<name>>, sanitizeRepoName(name))
    /\ UNCHANGED <<files, uiVars>>

CallSanitizeStorageName ==
    /\ applied = NotApplied
    /\ \E name \in NameInputs :
         applied' = Returned("sanitizeStorageName", <<name>>, sanitizeStorageName(name))
    /\ UNCHANGED <<files, uiVars>>

CallAddWorktree ==
    /\ applied = NotApplied
    /\ \E pair \in SegmentInputs :
         applied' = Returned("AddWorktree", pair, WorktreeDir(pair[1], pair[2]))
    /\ UNCHANGED <<files, uiVars>>

CallCloneTarget ==
    /\ applied = NotApplied
    /\ \E name \in NameInputs :
         applied' = Returned("CloneTarget", <<name>>, CloneTarget(name))
    /\ UNCHANGED <<files, uiVars>>

\* the caller has taken the result
TakeResult ==
    /\ applied # NotApplied
    /\ applied' = NotApplied
    /\ UNCHANGED <<files, uiVars>>

InitNames == InitOver({}, {})

NextNames ==
    \/ TakeResult
    \/ CallSanitizeName
    \/ CallSanitizeRepoName
    \/ CallSanitizeStorageName
    \/ CallAddWorktree
    \/ CallCloneTarget

SpecNames == InitNames /\ [][NextNames]_vars

\* ------------------------------------------------------ file-based storage
\* The scripts and notes of the config package that keeps them as files: a
\* file is its path below the config directory and its content.  An
\* operating-system call fails (fault) or does what it is for; a missing
\* file is not a fault.
notesDirName == "notes"
scriptsDirName == "scripts"
nameSeparator == <<"_", "_">>

\* the repository names, worktree names and texts the storage is called with
StoredRepoNames == {<<"a">>, <<"A">>, <<"/">>}
StoredWorktreeNames == {<<"a">>, <<"_">>}
StoredTexts == {<<>>, <<" ">>, <<"x">>, <<" ", "x", " ">>, <<"x", " ", "y">>}

\* config.repoScriptPath
repoScriptPath(repoName) == <<scriptsDirName, sanitizeStorageName(repoName)>>

\* config.worktreeNotesPath
worktreeNotesPath(repoName, worktreeName) ==
    <<notesDirName,
      sanitizeStorageName(repoName) \o nameSeparator \o sanitizeStorageName(worktreeName)>>

\* os.ReadFile
ReadFile(fs, path, fault) ==
    IF fault THEN [data |-> <<>>, err |-> "error"]
    ELSE IF \E f \in fs : f.path = path
    THEN [data |-> (CHOOSE f \in fs : f.path = path).data, err |-> "nil"]
    ELSE [data |-> <<>>, err |-> "not exist"]

\* os.MkdirAll and os.WriteFile
WriteFile(fs, path, data) ==
    {f \in fs : f.path # path} \cup {[path |-> path, data |-> data]}

\* an os.Remove that leaves the file where it is
RemoveFileNever(fs, path) == fs

\* os.Remove
RemoveFile(fs, path) == {f \in fs : f.path # path}

\* the body GetRepoScript and GetWorktreeNotes share: read, forgive a
\* missing file, trim
GetStored(fs, path, fault) ==
    LET r == ReadFile(fs, path, fault)
    IN  IF r.err = "nil" THEN [out |-> TrimSpace(r.data), err |-> FALSE]
        ELSE IF r.err = "not exist" THEN [out |-> <<>>, err |-> FALSE]
        ELSE [out |-> <<>>, err |-> TRUE]

\* the body DeleteRepoScript and DeleteWorktreeNotes share: remove, forgive
\* a missing file
DeleteStored(fs, path, fault) ==
    IF fault THEN [files |-> fs, err |-> TRUE]
    ELSE [files |-> RemoveFile(fs, path), err |-> FALSE]

\* the body SaveRepoScript and SaveWorktreeNotes share: trim, delete when
\* nothing is left, write otherwise
SaveStored(fs, path, text, fault) ==
    IF TrimSpace(text) = <<>> THEN DeleteStored(fs, path, fault)
    ELSE IF fault THEN [files |-> fs, err |-> TRUE]
    ELSE [files |-> WriteFile(fs, path, TrimSpace(text)), err |-> FALSE]

\* config.GetRepoScript
GetRepoScript(fs, repoName, fault) == GetStored(fs, repoScriptPath(repoName), fault)

\* config.SaveRepoScript
SaveRepoScript(fs, repoName, script, fault) ==
    SaveStored(fs, repoScriptPath(repoName), script, fault)

\* config.DeleteRepoScript
DeleteRepoScript(fs, repoName, fault) ==
    DeleteStored(fs, repoScriptPath(repoName), fault)

\* config.GetWorktreeNotes of the file-based storage
GetWorktreeNotesFile(fs, repoName, worktreeName, fault) ==
    GetStored(fs, worktreeNotesPath(repoName, worktreeName), fault)

\* config.SaveWorktreeNotes of the file-based storage
SaveWorktreeNotesFile(fs, repoName, worktreeName, notes, fault) ==
    SaveStored(fs, worktreeNotesPath(repoName, worktreeName), notes, fault)

\* config.DeleteWorktreeNotes of the file-based storage
DeleteWorktreeNotesFile(fs, repoName, worktreeName, fault) ==
    DeleteStored(fs, worktreeNotesPath(repoName, worktreeName), fault)

\* what `applied` holds after a storage call
Stored(fn, args, out, err, fault) ==
    [name |-> fn, args |-> args, out |-> out, err |-> err, fault |-> fault]

CallGetRepoScript ==
    /\ \E repoName \in StoredRepoNames, fault \in BOOLEAN :
         LET r == GetRepoScript(files, repoName, fault)
         IN  applied' = Stored("GetRepoScript", <<repoName>>, r.out, r.err, fault)
    /\ UNCHANGED <<files, uiVars>>

CallSaveRepoScript ==
    /\ \E repoName \in StoredRepoNames, script \in StoredTexts, fault \in BOOLEAN :
         LET r == SaveRepoScript(files, repoName, script, fault)
         IN  /\ Cardinality(r.files) <= MaxFiles
             /\ files' = r.files
             /\ applied' = Stored("SaveRepoScript", <<repoName, script>>, <<>>, r.err, fault)
    /\ UNCHANGED uiVars

CallDeleteRepoScript ==
    /\ \E repoName \in StoredRepoNames, fault \in BOOLEAN :
         LET r == DeleteRepoScript(files, repoName, fault)
         IN  /\ files' = r.files
             /\ applied' = Stored("DeleteRepoScript", <<repoName>>, <<>>, r.err, fault)
    /\ UNCHANGED uiVars

CallGetWorktreeNotes ==
    /\ \E repoName \in StoredRepoNames, worktreeName \in StoredWorktreeNames,
          fault \in BOOLEAN :
         LET r == GetWorktreeNotesFile(files, repoName, worktreeName, fault)
         IN  applied' = Stored("GetWorktreeNotes", <<repoName, worktreeName>>,
                               r.out, r.err, fault)
    /\ UNCHANGED <<files, uiVars>>

CallSaveWorktreeNotes ==
    /\ \E repoName \in StoredRepoNames, worktreeName \in StoredWorktreeNames,
          notes \in StoredTexts, fault \in BOOLEAN :
         LET r == SaveWorktreeNotesFile(files, repoName, worktreeName, notes, fault)
         IN  /\ Cardinality(r.files) <= MaxFiles
             /\ files' = r.files
             /\ applied' = Stored("SaveWorktreeNotes", <<repoName, worktreeName, notes>>,
                                  <<>>, r.err, fault)
    /\ UNCHANGED uiVars

CallDeleteWorktreeNotes ==
    /\ \E repoName \in StoredRepoNames, worktreeName \in StoredWorktreeNames,
          fault \in BOOLEAN :
         LET r == DeleteWorktreeNotesFile(files, repoName, worktreeName, fault)
         IN  /\ files' = r.files
             /\ applied' = Stored("DeleteWorktreeNotes", <<repoName, worktreeName>>,
                                  <<>>, r.err, fault)
    /\ UNCHANGED uiVars

InitStorage == InitOver({}, {})

NextStorage ==
    \/ CallGetRepoScript
    \/ CallSaveRepoScript
    \/ CallDeleteRepoScript
    \/ CallGetWorktreeNotes
    \/ CallSaveWorktreeNotes
    \/ CallDeleteWorktreeNotes

SpecStorage == InitStorage /\ [][NextStorage]_vars

\* ------------------------------------------------ the keys of the note files
\* The key of a note file is computed from a repository name and a worktree
\* name; here worktreeNotesPath is applied to every pair of short names
\* over letters of both cases, the underscore and a character the cleaner
\* replaces.
KeyAlphabet == {"a", "B", "_", "/"}

KeyNames == UNION {[1..k -> KeyAlphabet] : k \in 0..MaxSegLen}

CallWorktreeNotesPath ==
    /\ applied = NotApplied
    /\ \E repoName \in KeyNames, worktreeName \in KeyNames :
         applied' = Returned("worktreeNotesPath", <<repoName, worktreeName>>,
                             worktreeNotesPath(repoName, worktreeName))
    /\ UNCHANGED <<files, uiVars>>

InitNotePaths == InitOver({}, {})

NextNotePaths ==
    \/ TakeResult
    \/ CallWorktreeNotesPath

SpecNotePaths == InitNotePaths /\ [][NextNotePaths]_vars

\* ===================================================== properties
\* the calls a handler made, looked up by operation and outcome
HasCall(cs, op, ok) == \E k \in 1..Len(cs) : cs[k].op = op /\ cs[k].ok = ok

MadeCall(cs, op) == \E k \in 1..Len(cs) : cs[k].op = op

\* C1: SelectedWTIndex is always a valid index of Worktrees, or Worktrees is
\* empty and SelectedWTIndex is 0, after every operation, failing ones too
C1_WTIndexValid ==
    IF Len(Worktrees) = 0
    THEN SelectedWTIndex = 0
    ELSE SelectedWTIndex >= 0 /\ SelectedWTIndex < Len(Worktrees)

\* C2: SelectedRepoIndex is always a valid index of Repositories, or the list
\* is empty and the index is 0; the step that shrinks the list clamps it
C2_RepoIndexValid ==
    IF Len(Repositories) = 0
    THEN SelectedRepoIndex = 0
    ELSE SelectedRepoIndex >= 0 /\ SelectedRepoIndex < Len(Repositories)

\* C3: the first worktree is never deleted: the delete-worktree confirmation
\* is open only while SelectedWTIndex > 0 (also after a confirmation that
\* failed and left it open), and a confirmation never asks git to remove
\* Worktrees[0] or to delete its branch
C3_FirstWorktreeKept ==
    [][ /\ dialogType' = DialogConfirmDelete => SelectedWTIndex' > 0
        /\ (last' = "deleteWorktree" /\ Len(Worktrees) > 0) =>
             \A k \in 1..Len(calls') :
               /\ calls'[k].op = "RemoveWorktree" => calls'[k].arg # Worktrees[1].Path
               /\ calls'[k].op = "DeleteBranch" =>
                    calls'[k].arg[2] # Worktrees[1].Branch ]_vars

\* a confirmation failed at the removal and left the dialog open
C3_Witness ==
    /\ last = "deleteWorktree"
    /\ dialogType = DialogConfirmDelete
    /\ HasCall(calls, "RemoveWorktree", FALSE)
    /\ SelectedWTIndex > 0

\* C4: a confirmed delete-worktree whose removal, branch deletion and reload
\* all succeed leaves the worktree out of Worktrees, its note gone,
\* SelectedWTIndex = min(old index, new length - 1), and Normal mode
C4_DeleteWorktreeSucceeds ==
    [][ ( /\ dialogType = DialogConfirmDelete
          /\ last' = "deleteWorktree"
          /\ HasCall(calls', "RemoveWorktree", TRUE)
          /\ HasCall(calls', "DeleteBranch", TRUE)
          /\ HasCall(calls', "ListWorktrees", TRUE) ) =>
        LET path == Worktrees[SelectedWTIndex + 1].Path
        IN  /\ \A k \in 1..Len(Worktrees') : Worktrees'[k].Path # path
            /\ GetWorktreeNotes(WorktreeNotes', path) = Empty
            /\ SelectedWTIndex' = Min(SelectedWTIndex, Len(Worktrees') - 1)
            /\ dialogType' = DialogNone
            /\ ~editingNotes' ]_vars

\* the last of two worktrees was deleted: one is left and the cursor is on it
C4_Witness ==
    /\ last = "deleteWorktree"
    /\ HasCall(calls, "RemoveWorktree", TRUE)
    /\ HasCall(calls, "DeleteBranch", TRUE)
    /\ HasCall(calls, "ListWorktrees", TRUE)
    /\ Len(Worktrees) = 1
    /\ SelectedWTIndex = 0
    /\ dialogType = DialogNone

\* C5: a branch deletion that fails after the worktree was removed does not
\* abort delete-worktree: the note is deleted, Worktrees is reloaded and
\* the dialog closes
C5_BranchFailureTolerated ==
    ( /\ last = "deleteWorktree"
      /\ HasCall(calls, "RemoveWorktree", TRUE)
      /\ HasCall(calls, "DeleteBranch", FALSE) ) =>
    LET path == calls[1].arg
    IN  /\ GetWorktreeNotes(WorktreeNotes, path) = Empty
        /\ \A k \in 1..Len(Worktrees) : Worktrees[k].Path # path
        /\ dialogType = DialogNone

\* the worktree records a handler can have in hand: the list in memory and
\* what git lists for each repository
KnownWorktrees ==
    Range(Worktrees) \cup
    UNION { Range(ListWorktrees(n, registry)) : n \in RepoNames }

\* C6: in both delete workflows the branch of a worktree is deleted only
\* right after the removal of that same worktree succeeded; and when the
\* removal fails in delete-worktree nothing else happens: no branch and no
\* note is deleted, list and cursor stay as they were
C6_BranchAfterRemoval ==
    [][ /\ \A k \in 1..Len(calls') :
             calls'[k].op = "DeleteBranch" =>
               /\ k > 1
               /\ calls'[k - 1].op = "RemoveWorktree"
               /\ calls'[k - 1].ok
               /\ \E wt \in KnownWorktrees :
                    /\ wt.Path = calls'[k - 1].arg
                    /\ wt.Branch = calls'[k].arg[2]
        /\ ( /\ dialogType = DialogConfirmDelete
             /\ last' = "deleteWorktree"
             /\ HasCall(calls', "RemoveWorktree", FALSE) ) =>
           /\ ~MadeCall(calls', "DeleteBranch")
           /\ WorktreeNotes' = WorktreeNotes
           /\ Worktrees' = Worktrees
           /\ SelectedWTIndex' = SelectedWTIndex
           /\ registry' = registry ]_vars

\* the removal failed for a worktree that has a note, and the note is kept
C6_Witness ==
    /\ last = "deleteWorktree"
    /\ Len(calls) = 1
    /\ calls[1].op = "RemoveWorktree"
    /\ ~calls[1].ok
    /\ GetWorktreeNotes(WorktreeNotes, calls[1].arg) # Empty

\* C7: a delete-repository in which the removal of a worktree fails is
\* aborted: the record keeps its place in the list, the directory is not
\* removed, the script and the notes are kept
C7_FailedRemovalAborts ==
    [][ ( /\ dialogType = DialogConfirmDeleteRepo
          /\ last' = "deleteRepository"
          /\ HasCall(calls', "RemoveWorktree", FALSE) ) =>
        /\ Repositories' = Repositories
        /\ gitDirs' = gitDirs
        /\ WorktreeNotes' = WorktreeNotes
        /\ ~MadeCall(calls', "DeleteRepository") ]_vars

\* an aborted deletion of a repository that has a script and a note
C7_Witness ==
    /\ last = "deleteRepository"
    /\ HasCall(calls, "RemoveWorktree", FALSE)
    /\ \E k \in 1..Len(Repositories) :
         /\ Repositories[k].Path = calls[1].arg
         /\ Repositories[k].PostCreateScript # Empty
         /\ Repositories[k].Name \in gitDirs
         /\ \E x \in WorktreeNotes : RepoOfPath(x.Path) = Repositories[k].Name

\* C8: delete-repository on a repository whose directory is already missing
\* completes: the record is removed
C8_MissingDirCompletes ==
    ( /\ last = "deleteRepository"
      /\ calls # <<>>
      /\ calls[1].op = "ListWorktrees"
      /\ RepoOfPath(calls[1].arg) \notin gitDirs ) =>
    \A k \in 1..Len(Repositories) : Repositories[k].Path # calls[1].arg

\* C9: after a successful delete-repository no note of a worktree of that
\* repository and no script under its name is left
C9_NothingLeftBehind ==
    ( /\ last = "deleteRepository"
      /\ HasCall(calls, "Save", TRUE) ) =>
    LET name == RepoOfPath(calls[1].arg)
    IN  /\ \A x \in WorktreeNotes : RepoOfPath(x.Path) # name
        /\ \A k \in 1..Len(Repositories) : Repositories[k].Name # name

\* the errors that keep a dialog open for another try
ValidationTexts ==
    { <<"Name is required">>, <<"Path/URL is required">>,
      <<"Branch name is required">>, <<"Branch name cannot contain spaces">>,
      <<"Repository with this name already exists">>,
      <<"Failed to create worktree", "path already exists">> }

\* C10: every error of a workflow returns to Normal mode, except validation
\* errors: a failing git call in add-worktree, delete-worktree, clone or
\* delete-repository never leaves a dialog open
C10_ErrorsReturnToNormal ==
    ( /\ last # NoHandler
      /\ pending # <<>>
      /\ pending[Len(pending)].kind = "error"
      /\ pending[Len(pending)].text \notin ValidationTexts ) =>
    (dialogType = DialogNone /\ ~editingNotes)

\* C11: the program exits only from Normal mode: no key handled while a
\* dialog is open or while notes are edited produces the quit command
C11_ExitOnlyFromNormal ==
    [][ (quit = "no" /\ quit' \in {"normal", "dialog"}) =>
        (dialogType = DialogNone /\ ~editingNotes) ]_vars

\* C12: no failure of a workflow ends the process: it ends only on a quit
\* key, and no handler reads Worktrees[SelectedWTIndex] or
\* Repositories[SelectedRepoIndex] with the index out of range
C12_NoCrash == quit # "panic"

\* C13: in the free-text dialogs every printable key, "y", "n" and "s"
\* included, is forwarded to the focused text field; "y" and "n" confirm and
\* cancel only in the two confirmation dialogs
C13_KeysByDialogType ==
    /\ dialogType \in FreeTextDialogs =>
         \A key \in PrintableKeys : KeyEffect(dialogType, key) = "forward"
    /\ \A key \in {"y", "n"} :
         KeyEffect(dialogType, key) \in {"confirm", "cancel"} =>
           dialogType \in ConfirmDialogs

\* the mode of the interface: notes editing, an open dialog, or Normal
Mode == IF editingNotes THEN "EditingNotes" ELSE dialogType

\* C14: the mode changes only from Normal into a dialog or notes editing,
\* or from one of these back to Normal, never from one dialog or edit mode
\* to another; a dialog and notes editing are never active together
C14_ModeTransitions ==
    [][ quit' = "no" =>
        /\ Mode' # Mode => (Mode = DialogNone \/ Mode' = DialogNone)
        /\ ~(editingNotes' /\ dialogType' # DialogNone) ]_vars

\* a committed add-worktree dialog went back to Normal
C14_Witness ==
    /\ last = "saveWorktree"
    /\ Mode = DialogNone
    /\ pending # <<>>
    /\ pending[Len(pending)].kind = "success"

\* the `git worktree add` commands among the calls of a handler
AddCommands(cs) == {cs[k].arg : k \in {j \in 1..Len(cs) : cs[j].op = "AddWorktree"}}

\* C15: adding a worktree for a branch that exists never creates the
\* branch from a base reference: the worktree is attached to the branch and
\* no base reference (origin/main, origin/master, current branch) is looked up
C15_ExistingBranchAttached ==
    ( /\ last = "saveWorktree"
      /\ HasCall(calls, "BranchExists", TRUE) ) =>
    /\ ~MadeCall(calls, "remoteBranchExists")
    /\ ~MadeCall(calls, "GetCurrentBranch")
    /\ \A cmd \in AddCommands(calls) : ~cmd.create /\ cmd.base = "none"

\* a worktree was added for a branch that existed
C15_Witness ==
    /\ last = "saveWorktree"
    /\ HasCall(calls, "BranchExists", TRUE)
    /\ HasCall(calls, "AddWorktree", TRUE)

\* C16: a branch that does not exist is created from origin/main in a
\* remote repository when that ref exists and from origin/master otherwise,
\* and from the checked-out branch in a local repository
C16_BaseReference ==
    ( /\ last = "saveWorktree"
      /\ HasCall(calls, "BranchExists", FALSE) ) =>
    \A cmd \in AddCommands(calls) :
      /\ cmd.create
      /\ cmd.base =
           IF RepoType(RepoOfPath(cmd.path)) = "remote"
           THEN IF HasCall(calls, "remoteBranchExists", TRUE)
                THEN "origin/main" ELSE "origin/master"
           ELSE "current branch"
      /\ RepoType(RepoOfPath(cmd.path)) = "local" =>
           HasCall(calls, "GetCurrentBranch", TRUE)

\* a branch was created in a remote repository that has no origin/main
C16_Witness ==
    /\ last = "saveWorktree"
    /\ HasCall(calls, "BranchExists", FALSE)
    /\ HasCall(calls, "remoteBranchExists", FALSE)
    /\ HasCall(calls, "AddWorktree", TRUE)

\* C17: add-worktree rejects a target directory that exists already: no
\* `git worktree add` runs, no branch is created, the worktree list is as
\* it was and the dialog stays open with an error
C17_ExistingPathRejected ==
    [][ ( /\ dialogType = DialogAddWorktree
          /\ last' = "saveWorktree"
          /\ HasCall(calls', "Stat", TRUE) ) =>
        /\ ~MadeCall(calls', "AddWorktree")
        /\ registry' = registry
        /\ Worktrees' = Worktrees
        /\ dialogType' = DialogAddWorktree
        /\ pending' = Append(pending,
             ErrorMsg(<<"Failed to create worktree", "path already exists">>)) ]_vars

\* the request for a branch that has its worktree already was rejected
C17_Witness ==
    /\ last = "saveWorktree"
    /\ HasCall(calls, "Stat", TRUE)
    /\ dialogType = DialogAddWorktree
    /\ \E wt \in Range(Worktrees) : \E k \in 1..Len(calls) :
         calls[k].op = "Stat" /\ calls[k].arg = wt.Path

\* C18: a post-create script that fails does not undo the worktree: the
\* new worktree is in the reloaded list, the dialog is closed and an error
\* is reported; the script runs only after the list was reloaded
C18_ScriptFailureKeepsWorktree ==
    ( /\ last = "saveWorktree"
      /\ MadeCall(calls, "ExecutePostCreateScript") ) =>
    \A k \in 1..Len(calls) :
      calls[k].op = "ExecutePostCreateScript" =>
        /\ \E j \in 1..(k - 1) : calls[j].op = "ListWorktrees" /\ calls[j].ok
        /\ ~calls[k].ok =>
             /\ \E wt \in Range(Worktrees) : wt.Path = calls[k].arg
             /\ dialogType = DialogNone
             /\ pending # <<>>
             /\ pending[Len(pending)] =
                  ErrorMsg(<<"Worktree created but script failed">>)

\* the script of a new worktree failed
C18_Witness ==
    /\ last = "saveWorktree"
    /\ HasCall(calls, "AddWorktree", TRUE)
    /\ HasCall(calls, "ExecutePostCreateScript", FALSE)

\* no two repositories of the list have the same name
NamesUnique(repos) ==
    \A j, k \in 1..Len(repos) : repos[j].Name = repos[k].Name => j = k

\* C19: repository names are unique in every reachable state; committing
\* add-repository with the name of a repository of the list is rejected
\* before any clone, filesystem or persistence call and leaves the list as
\* it was
C19_NamesUnique ==
    [][ /\ NamesUnique(Repositories')
        /\ ( /\ dialogType = DialogAddRepo
             /\ last' = "saveRepository"
             /\ AddRepoInvalid(addRepoDialog) = Empty
             /\ \E k \in 1..Len(Repositories) :
                  Repositories[k].Name = addRepoDialog.name[1] ) =>
           /\ calls' = <<>>
           /\ Repositories' = Repositories
           /\ gitDirs' = gitDirs
           /\ registry' = registry
           /\ pending' = Append(pending,
                ErrorMsg(<<"Repository with this name already exists">>)) ]_vars

\* a second repository of the same name was refused
C19_Witness ==
    /\ last = "saveRepository"
    /\ dialogType = DialogAddRepo
    /\ pending = <<ErrorMsg(<<"Repository with this name already exists">>)>>
    /\ \E k \in 1..Len(Repositories) : <<Repositories[k].Name>> = addRepoDialog.name

\* C20: an add-repository for a local path that does not exist, or for a
\* remote URL whose clone fails, registers nothing: the list of
\* repositories, both cursors and the list of worktrees are as before
C20_FailedAddRegistersNothing ==
    [][ ( /\ dialogType = DialogAddRepo
          /\ last' = "saveRepository"
          /\ AddRepoInvalid(addRepoDialog) = Empty
          /\ \/ /\ RepoType(addRepoDialog.name[1]) = "local"
                /\ addRepoDialog.name[1] \notin gitDirs
             \/ HasCall(calls', "CloneRepository", FALSE) ) =>
        /\ Repositories' = Repositories
        /\ SelectedRepoIndex' = SelectedRepoIndex
        /\ SelectedWTIndex' = SelectedWTIndex
        /\ Worktrees' = Worktrees ]_vars

\* the clone of a remote repository failed
C20_Witness ==
    /\ last = "saveRepository"
    /\ HasCall(calls, "CloneRepository", FALSE)
    /\ \A k \in 1..Len(Repositories) : <<Repositories[k].Name>> # addRepoDialog.name

\* C21: an add-repository that registered and saved the repository appends
\* its record after the existing ones (which keep content and order), puts
\* SelectedRepoIndex on the new last index, replaces Worktrees with what git
\* lists for the new repository (nothing when that listing fails) and
\* returns to Normal
C21_AddRepositorySucceeds ==
    [][ ( /\ dialogType = DialogAddRepo
          /\ last' = "saveRepository"
          /\ HasCall(calls', "Save", TRUE) ) =>
        LET name == addRepoDialog.name[1]
        IN  /\ Len(Repositories') = Len(Repositories) + 1
            /\ SubSeq(Repositories', 1, Len(Repositories)) = Repositories
            /\ Repositories'[Len(Repositories')].Name = name
            /\ SelectedRepoIndex' = Len(Repositories') - 1
            /\ Worktrees' = IF HasCall(calls', "ListWorktrees", TRUE)
                            THEN ListWorktrees(name, registry')
                            ELSE <<>>
            /\ dialogType' = DialogNone
            /\ ~editingNotes' ]_vars

\* a second repository was added while the first one showed a worktree: the
\* cursor is on the new repository and its listing is shown
C21_Witness ==
    /\ last = "saveRepository"
    /\ HasCall(calls, "Save", TRUE)
    /\ HasCall(calls, "ListWorktrees", TRUE)
    /\ Len(Repositories) = 2
    /\ SelectedRepoIndex = 1
    /\ Worktrees = ListWorktrees(Repositories[2].Name, registry)
    /\ Len(Worktrees) > 0
    /\ dialogType = DialogNone

\* C25: for the lists and cursors of every reachable state, NextRepo and
\* NextWorktree from the last index give 0, PrevRepo and PrevWorktree from
\* index 0 give the last index, on an empty list all four leave the cursors
\* as they are, and from an in-bounds index Next then Prev, and Prev then
\* Next, give the index back
C25_CircularMoves ==
    LET repos == Repositories
        n == Len(Repositories)
        i == SelectedRepoIndex
        wts == Worktrees
        m == Len(Worktrees)
        j == SelectedWTIndex
        nr == NextRepo(repos, i, j)
        pr == PrevRepo(repos, i, j)
    IN  /\ n = 0 => /\ nr = [SelectedRepoIndex |-> i, SelectedWTIndex |-> j]
                     /\ pr = [SelectedRepoIndex |-> i, SelectedWTIndex |-> j]
        /\ m = 0 => /\ NextWorktree(wts, j) = j
                     /\ PrevWorktree(wts, j) = j
        /\ (n > 0 /\ i \in 0..(n - 1)) =>
              /\ nr.SelectedRepoIndex = (IF i = n - 1 THEN 0 ELSE i + 1)
              /\ pr.SelectedRepoIndex = (IF i = 0 THEN n - 1 ELSE i - 1)
              /\ PrevRepo(repos, nr.SelectedRepoIndex, 0).SelectedRepoIndex = i
              /\ NextRepo(repos, pr.SelectedRepoIndex, 0).SelectedRepoIndex = i
        /\ (m > 0 /\ j \in 0..(m - 1)) =>
              /\ NextWorktree(wts, j) = (IF j = m - 1 THEN 0 ELSE j + 1)
              /\ PrevWorktree(wts, j) = (IF j = 0 THEN m - 1 ELSE j - 1)
              /\ PrevWorktree(wts, NextWorktree(wts, j)) = j
              /\ NextWorktree(wts, PrevWorktree(wts, j)) = j

\* the worktree cursor was moved to the last of two worktrees, from where
\* NextWorktree wraps to the first, with the repository cursor on the last
\* of two repositories
C25_Witness ==
    /\ quit = "no"
    /\ ActivePane = WorktreesPane
    /\ Len(Worktrees) = 2
    /\ SelectedWTIndex = 1
    /\ NextWorktree(Worktrees, SelectedWTIndex) = 0
    /\ Len(Repositories) = 2
    /\ SelectedRepoIndex = 1
    /\ NextRepo(Repositories, SelectedRepoIndex, SelectedWTIndex).SelectedRepoIndex = 0

\* C26: an up/down key in the repositories pane with at least one repository
\* leaves SelectedWTIndex = 0 and Worktrees equal to what git lists for the
\* repository now selected, or empty when its path is missing or the
\* listing fails; no entry of Worktrees belongs to another repository
C26_RepoMoveReloads ==
    [][ ( /\ KeyMove
          /\ ActivePane = ReposPane
          /\ Len(Repositories) > 0 ) =>
        LET name == Repositories[SelectedRepoIndex' + 1].Name
        IN  /\ SelectedRepoIndex' \in 0..(Len(Repositories) - 1)
            /\ SelectedWTIndex' = 0
            /\ Worktrees' = IF name \in gitDirs /\ HasCall(calls', "ListWorktrees", TRUE)
                            THEN ListWorktrees(name, registry)
                            ELSE <<>>
            /\ \A k \in 1..Len(Worktrees') : RepoOfPath(Worktrees'[k].Path) = name ]_vars

\* the cursor is on the second repository, whose path is missing, with an
\* empty worktree list, while the first repository has two worktrees: the
\* state only a move from the first repository leaves
C26_Witness ==
    /\ quit = "no"
    /\ dialogType = DialogNone
    /\ ActivePane = ReposPane
    /\ Len(Repositories) = 2
    /\ SelectedRepoIndex = 1
    /\ SelectedWTIndex = 0
    /\ Repositories[2].Name \notin gitDirs
    /\ Worktrees = <<>>
    /\ calls = <<>>
    /\ last = NoHandler
    /\ Repositories[1].Name \in gitDirs
    /\ Len(ListWorktrees(Repositories[1].Name, registry)) = 2

\* the text a template gives when every placeholder in it is replaced by its
\* value at once
Substituted(template, repoName, branch, path, name) ==
    LET piece(x) == CASE x = PhRepoName -> repoName
                      [] x = PhBranchName -> branch
                      [] x = PhWorktreePath -> path
                      [] x = PhWorktreeName -> name
                      [] OTHER -> <<x>>
        RECURSIVE subst(_)
        subst(t) == IF t = <<>> THEN <<>> ELSE piece(Head(t)) \o subst(Tail(t))
    IN  subst(template)

\* C27: a yank writes to the clipboard the configured template with
\* ${repo_name}, ${branch_name}, ${worktree_path} and ${worktree_name}
\* replaced by the selected repository's name and the selected worktree's
\* branch, path and name ("${repo_name}:${branch_name}" with "demo" and
\* "feat-x" gives "demo:feat-x"), an empty template counting as
\* "${worktree_path}"; it makes no git call and leaves the repositories, the
\* worktrees, both cursors, the pane and the mode as they were
C27_YankSubstitutes ==
    [][ KeyYank =>
        /\ \A k \in 1..Len(calls') :
              /\ calls'[k].op = "clipboard.WriteAll"
              /\ LET template == calls'[k].arg[1]
                     repo == Repositories[SelectedRepoIndex' + 1]
                     wt == Worktrees[SelectedWTIndex + 1]
                 IN  calls'[k].arg[2] =
                       Substituted(IF template = <<>> THEN <<PhWorktreePath>>
                                   ELSE template,
                                   TextOf(repo.Name), TextOf(wt.Branch),
                                   TextOf(wt.Path), TextOf(wt.Name))
        /\ YankText(<<PhRepoName, ":", PhBranchName>>, <<"demo">>, <<"feat-x">>,
                    <<"/root/demo-feat-x">>, <<"demo-feat-x">>) = <<"demo", ":", "feat-x">>
        /\ UNCHANGED <<Repositories, WorktreeNotes, Worktrees, SelectedRepoIndex,
                       SelectedWTIndex, ActivePane, dialogType, editingNotes,
                       gitDirs, registry>> ]_vars

\* what git lists for the selected repository: nothing when there is no
\* repository or its directory is gone
GitListing ==
    IF Len(Repositories) = 0 THEN <<>>
    ELSE LET name == Repositories[GetSelectedRepoIndex(Repositories,
                                                       SelectedRepoIndex) + 1].Name
         IN  IF name \in gitDirs THEN ListWorktrees(name, registry) ELSE <<>>

\* C29: when an add-worktree, delete-worktree or delete-repository workflow
\* has returned, with or without an error, after at least one worktree was
\* added or removed in git, Worktrees equals git's worktree registry for the
\* selected repository
C29_WorktreesMatchGit ==
    ( /\ last \in {"saveWorktree", "deleteWorktree", "deleteRepository"}
      /\ \/ HasCall(calls, "AddWorktree", TRUE)
         \/ HasCall(calls, "RemoveWorktree", TRUE) ) =>
    Worktrees = GitListing

\* C30: a delete-repository that removed the repository and saved the
\* config has removed exactly the record at the selected index (the other
\* records keep content and order), has put the cursor on
\* min(old index, new length - 1), 0 when no repository is left, and has
\* replaced Worktrees with what git lists for the repository now selected
\* (nothing when none is left, its path is missing or the listing fails)
C30_DeleteRepositorySucceeds ==
    [][ ( /\ dialogType = DialogConfirmDeleteRepo
          /\ last' = "deleteRepository"
          /\ HasCall(calls', "Save", TRUE) ) =>
        LET i == SelectedRepoIndex
            n == Len(Repositories)
            n1 == Len(Repositories')
        IN  /\ i \in 0..(n - 1)
            /\ Repositories' = [k \in 1..(n - 1) |->
                                  IF k <= i THEN Repositories[k] ELSE Repositories[k + 1]]
            /\ SelectedRepoIndex' = (IF n1 = 0 THEN 0 ELSE Min(i, n1 - 1))
            /\ Worktrees' =
                  IF n1 = 0 THEN <<>>
                  ELSE LET name == Repositories'[SelectedRepoIndex' + 1].Name
                       IN  IF /\ name \in gitDirs'
                              /\ calls'[Len(calls')] =
                                   Call("ListWorktrees", RepoPath(name), TRUE)
                           THEN ListWorktrees(name, registry')
                           ELSE <<>> ]_vars

\* the sanitizers by name
SanitizerNames == {"sanitizeName", "sanitizeRepoName", "sanitizeStorageName"}

SanitizerResult(fn, s) ==
    CASE fn = "sanitizeName" -> sanitizeName(s)
      [] fn = "sanitizeRepoName" -> sanitizeRepoName(s)
      [] fn = "sanitizeStorageName" -> sanitizeStorageName(s)

\* only characters of [a-z0-9-], no dash first or last, no two dashes in a row
IsSanitized(s) ==
    /\ \A k \in 1..Len(s) : s[k] \in Range(LowerLetters) \cup DigitChars \cup {"-"}
    /\ s # <<>> => (s[1] # "-" /\ s[Len(s)] # "-")
    /\ \A k \in 1..(Len(s) - 1) : ~(s[k] = "-" /\ s[k + 1] = "-")

\* C22: whatever name git.sanitizeName, ui.sanitizeRepoName or
\* config.sanitizeStorageName is called with, it returns a result, the
\* result has only characters of [a-z0-9-] with no leading, trailing or
\* doubled dash, and sanitizing the result again gives the result
C22_SanitizersIdempotent ==
    applied.name \in SanitizerNames =>
      /\ ~applied.err
      /\ IsSanitized(applied.out)
      /\ SanitizerResult(applied.name, applied.out) = applied.out

\* C23: a sanitizer never returns the empty string, and for a name that is
\* empty or has only characters outside [A-Za-z0-9-] it returns "unnamed";
\* so the two segments of a worktree directory name and the directory name
\* of a clone target are not empty
C23_EmptyFallsBack ==
    /\ applied.name \in SanitizerNames =>
         /\ applied.out # <<>>
         /\ (\A k \in 1..Len(applied.args[1]) : applied.args[1][k] \notin NameChars)
               => applied.out = Unnamed
    /\ applied.name = "AddWorktree" =>
         /\ applied.out.sanitizedRepo # <<>>
         /\ applied.out.sanitizedBranch # <<>>
    /\ applied.name = "CloneTarget" => applied.out.sanitizedName # <<>>

\* sanitize as the contract words it: the runs of letters and digits of the
\* name, lower-cased and joined by single dashes, or "unnamed" when there is
\* none
RECURSIVE JoinWords(_, _)
JoinWords(s, seen) ==
    IF s = <<>> THEN <<>>
    ELSE IF Head(s) \in NameChars \ {"-"}
    THEN (IF seen = "gap" THEN <<"-">> ELSE <<>>) \o ToLower(<<Head(s)>>)
         \o JoinWords(Tail(s), "word")
    ELSE JoinWords(Tail(s), IF seen = "start" THEN "start" ELSE "gap")

Sanitized(s) ==
    IF JoinWords(s, "start") = <<>> THEN Unnamed ELSE JoinWords(s, "start")

MyRepoFeatureNewThing ==
    <<"m", "y", "-", "r", "e", "p", "o", "-", "f", "e", "a", "t", "u", "r", "e", "-",
      "n", "e", "w", "-", "t", "h", "i", "n", "g">>

\* C24: the directory AddWorktree creates is the root directory joined with
\* sanitize(repoName), a dash and sanitize(branch); for "My Repo" and
\* "feature/new-thing" its name is "my-repo-feature-new-thing"
C24_WorktreeDirectory ==
    applied.name = "AddWorktree" =>
      /\ applied.out.worktreePath =
           <<RootDir, Sanitized(applied.args[1]) \o <<"-">> \o Sanitized(applied.args[2])>>
      /\ applied.args = <<MyRepo, FeatureNewThing>> =>
           applied.out.worktreeName = MyRepoFeatureNewThing

\* s without the spaces before its first and after its last other character
Stripped(s) ==
    LET inner == {k \in 1..Len(s) : s[k] # " "}
    IN  IF inner = {} THEN <<>>
        ELSE SubSeq(s, CHOOSE k \in inner : \A j \in inner : k <= j,
                       CHOOSE k \in inner : \A j \in inner : k >= j)

\* C28: with no operating-system fault, a GetRepoScript right after a
\* SaveRepoScript of the same name returns the saved text without its
\* surrounding white space and no error, which for an empty or blank text
\* is ""; a GetRepoScript whose key has no file returns "" and no error;
\* and the same for SaveWorktreeNotes and GetWorktreeNotes of the same
\* (repository name, worktree name)
C28_StorageRoundTrip ==
    [][ /\ ( /\ applied.name = "SaveRepoScript" /\ ~applied.fault
             /\ applied'.name = "GetRepoScript" /\ ~applied'.fault
             /\ applied'.args[1] = applied.args[1] ) =>
            ( ~applied.err /\ ~applied'.err /\ applied'.out = Stripped(applied.args[2]) )
        /\ ( /\ applied.name = "SaveWorktreeNotes" /\ ~applied.fault
             /\ applied'.name = "GetWorktreeNotes" /\ ~applied'.fault
             /\ applied'.args = SubSeq(applied.args, 1, 2) ) =>
            ( ~applied.err /\ ~applied'.err /\ applied'.out = Stripped(applied.args[3]) )
        /\ ( /\ applied'.name = "GetRepoScript" /\ ~applied'.fault
             /\ \A f \in files : f.path # repoScriptPath(applied'.args[1]) ) =>
            ( ~applied'.err /\ applied'.out = <<>> )
        /\ ( /\ applied'.name = "GetWorktreeNotes" /\ ~applied'.fault
             /\ \A f \in files :
                  f.path # worktreeNotesPath(applied'.args[1], applied'.args[2]) ) =>
            ( ~applied'.err /\ applied'.out = <<>> ) ]_vars

\* a script saved with spaces around it was read back without them, while
\* a note is stored as well
C28_Witness ==
    /\ applied.name = "GetRepoScript"
    /\ ~applied.err
    /\ applied.out = <<"x">>
    /\ \E f \in files : f.path = repoScriptPath(applied.args[1]) /\ f.data = <<"x">>
    /\ \E f \in files : f.path[1] = notesDirName

\* C31: delete-repository never calls RemoveWorktree on the primary worktree
\* (the repository's own path, index 0 of the listing) and never deletes
\* its branch; every worktree it removes is one git has registered for the
\* repository, listed at index >= 1
C31_PrimaryNeverRemoved ==
    [][ ( /\ dialogType = DialogConfirmDeleteRepo
          /\ last' = "deleteRepository"
          /\ Len(calls') > 0 ) =>
        LET repoPath == calls'[1].arg
            name == RepoOfPath(repoPath)
        IN  \A k \in 1..Len(calls') :
              /\ calls'[k].op = "RemoveWorktree" =>
                    /\ calls'[k].arg # repoPath
                    /\ \E i \in 1..Len(registry[name]) :
                         calls'[k].arg = WorktreePath(name, registry[name][i])
              /\ calls'[k].op = "DeleteBranch" =>
                    /\ calls'[k].arg[2] # 0
                    /\ \E i \in 1..Len(registry[name]) :
                         calls'[k].arg[2] = registry[name][i] ]_vars

\* a repository with an extra worktree was deleted: the extra worktree was
\* removed on its own, the primary one went with the directory
C31_Witness ==
    /\ last = "deleteRepository"
    /\ HasCall(calls, "RemoveWorktree", TRUE)
    /\ HasCall(calls, "DeleteBranch", TRUE)
    /\ HasCall(calls, "DeleteRepository", TRUE)
    /\ HasCall(calls, "Save", TRUE)

\* the names of the worktrees whose removal failed, in the order of the calls
RECURSIVE FailedRemovals(_)
FailedRemovals(cs) ==
    IF cs = <<>> THEN <<>>
    ELSE IF Head(cs).op = "RemoveWorktree" /\ ~Head(cs).ok
         THEN <<Base(Head(cs).arg)>> \o FailedRemovals(Tail(cs))
         ELSE FailedRemovals(Tail(cs))

\* C32: in delete-repository a failing worktree removal does not stop the
\* loop: removal is attempted for every non-primary worktree git lists, a
\* failing branch deletion is never counted as an error (alone it does not
\* keep the repository from being deleted), and all the removal failures are
\* reported together in the one error message the workflow shows
C32_RemovalErrorsCollected ==
    [][ ( /\ dialogType = DialogConfirmDeleteRepo
          /\ last' = "deleteRepository"
          /\ Len(calls') > 0
          /\ calls'[1].ok ) =>
        LET name == RepoOfPath(calls'[1].arg)
            failed == FailedRemovals(calls')
        IN  /\ \A i \in 1..Len(registry[name]) :
                  \E k \in 1..Len(calls') :
                    /\ calls'[k].op = "RemoveWorktree"
                    /\ calls'[k].arg = WorktreePath(name, registry[name][i])
            /\ failed = <<>> => \E k \in 1..Len(calls') : calls'[k].op = "DeleteRepository"
            /\ failed # <<>> =>
                  /\ pending' = Append(pending,
                                        ErrorMsg(<<"Errors during deletion", failed>>))
                  /\ \A k \in 1..Len(calls') : calls'[k].op # "DeleteRepository" ]_vars

C32_Witness ==
    /\ last = "deleteRepository"
    /\ \E j, k \in 1..Len(calls) :
          /\ j < k
          /\ calls[j].op = "RemoveWorktree" /\ ~calls[j].ok
          /\ calls[k].op = "RemoveWorktree" /\ calls[k].ok
    /\ HasCall(calls, "DeleteBranch", FALSE)
    /\ Len(pending) > 0
    /\ pending[Len(pending)].kind = "error"
    /\ Len(pending[Len(pending)].text) = 2
    /\ Len(pending[Len(pending)].text[2]) = 1

\* the input the user commits is one the dialogs' validation turns down:
\* an empty branch name or one with a space in it, an empty repository name
\* or an empty path/URL
InvalidCommit ==
    \/ /\ dialogType = DialogAddWorktree
       /\ last' = "saveWorktree"
       /\ \/ addWorktreeDialog.branch = Empty
          \/ Len(addWorktreeDialog.branch) > 1
    \/ /\ dialogType = DialogAddRepo
       /\ last' = "saveRepository"
       /\ \/ addRepoDialog.name = Empty
          \/ addRepoDialog.path = Empty

\* C33: validation errors never reach the git adapter: committing
\* add-worktree with an empty branch name or one containing a space, or
\* add-repository with an empty name or an empty path/URL, makes no git,
\* clone or filesystem call, changes no list and no cursor, keeps the dialog
\* open and reports the error
C33_ValidationStopsEarly ==
    [][ InvalidCommit =>
        /\ calls' = <<>>
        /\ UNCHANGED <<Repositories, Worktrees, WorktreeNotes, SelectedRepoIndex,
                       SelectedWTIndex, gitDirs, registry>>
        /\ dialogType' = dialogType
        /\ Len(pending') = Len(pending) + 1
        /\ pending'[Len(pending')].kind = "error" ]_vars

C33_Witness ==
    /\ last = "saveWorktree"
    /\ dialogType = DialogAddWorktree
    /\ Len(addWorktreeDialog.branch) > 1
    /\ calls = <<>>
    /\ Len(pending) > 0
    /\ pending[Len(pending)] = ErrorMsg(<<"Branch name cannot contain spaces">>)

\* C34: cancelling a dialog (Esc in any dialog, "n" in either confirmation
\* dialog) returns to Normal and leaves the repository list with its scripts,
\* the worktree list, the notes, both cursors and the active pane unchanged,
\* and makes no git, filesystem or persistence call
C34_CancelChangesNothing ==
    [][ ( /\ dialogType # DialogNone
          /\ last' = "cancel" ) =>
        /\ Mode' = DialogNone
        /\ quit' = "no"
        /\ UNCHANGED <<Repositories, Worktrees, WorktreeNotes, SelectedRepoIndex,
                       SelectedWTIndex, ActivePane, gitDirs, registry, pending>>
        /\ calls' = <<>> ]_vars

\* a dialog was cancelled with both cursors on an entry other than the first
C34_Witness ==
    /\ last = "cancel"
    /\ dialogType = DialogNone
    /\ ~editingNotes
    /\ calls = <<>>
    /\ Len(Repositories) = MaxRepos
    /\ SelectedRepoIndex = MaxRepos - 1
    /\ Len(Worktrees) > 1
    /\ SelectedWTIndex = 1

\* the text of a notes text area without the white space around it
TrimmedNote(t) == IF t \in {Empty, <<" ">>} THEN Empty ELSE SomeText

\* C35: notes editing starts on the selected worktree; leaving it with Esc or
\* Ctrl+S stores the trimmed text as the note of that worktree (no note at
\* all when the trimmed text is empty), touches no other note and returns to
\* Normal whether or not saving the config succeeds; a key that goes to the
\* text area does not leave the mode, move a cursor or quit
C35_NotesLeave ==
    [][ /\ (~editingNotes /\ editingNotes') =>
              /\ SelectedWTIndex < Len(Worktrees)
              /\ editingWorktreePath' = Worktrees[SelectedWTIndex + 1].Path
              /\ UNCHANGED <<SelectedWTIndex, Worktrees>>
        /\ (editingNotes /\ last' = "notes-save") =>
              LET path == Worktrees[SelectedWTIndex + 1].Path
                  text == TrimmedNote(notesTextarea)
              IN  /\ editingWorktreePath = path
                  /\ \A x \in WorktreeNotes' : x.Path = path => x.Notes = text
                  /\ text = Empty => ~\E x \in WorktreeNotes' : x.Path = path
                  /\ text # Empty => \E x \in WorktreeNotes' : x.Path = path
                  /\ {x \in WorktreeNotes' : x.Path # path} =
                     {x \in WorktreeNotes : x.Path # path}
                  /\ Mode' = DialogNone
                  /\ quit' = "no"
                  /\ UNCHANGED <<SelectedRepoIndex, SelectedWTIndex, ActivePane, Worktrees>>
        /\ (editingNotes /\ last' # "notes-save" /\ notesTextarea' # notesTextarea) =>
              /\ editingNotes'
              /\ dialogType' = DialogNone
              /\ quit' = "no"
              /\ UNCHANGED <<SelectedRepoIndex, SelectedWTIndex, ActivePane, Worktrees,
                             WorktreeNotes, editingWorktreePath>> ]_vars

\* notes were left while the config could not be saved: the note of the
\* selected worktree, not the first of the list, is stored all the same
C35_Witness ==
    /\ last = "notes-save"
    /\ HasCall(calls, "Save", FALSE)
    /\ errorMsg = <<"Failed to save notes">>
    /\ ~editingNotes
    /\ dialogType = DialogNone
    /\ SelectedWTIndex = 1
    /\ Len(Worktrees) > 1
    /\ GetWorktreeNotes(WorktreeNotes, Worktrees[2].Path) = SomeText

\* C36: an error outcome is always the visible one: when the error a failed
\* workflow returned is delivered (it is delivered before the next key is
\* handled, so it is the outcome of the most recently completed workflow),
\* or when leaving the notes fails to save, errorMsg is non-empty and
\* successMsg is empty: no success banner left over from an earlier workflow
\* hides the error
C36_ErrorIsVisible ==
    [][ ( /\ quit' = "no"
          /\ \/ /\ pending # <<>>
                /\ pending' = <<>>
                /\ pending[1].kind = "error"
             \/ /\ last' = "notes-save"
                /\ HasCall(calls', "Save", FALSE) ) =>
        (errorMsg' # Empty /\ successMsg' = Empty) ]_vars

\* C37: while the confirm-delete-repository dialog is open, the repository a
\* "y" deletes is the one the dialog was opened with, also after an earlier
\* "y" in the same dialog ended in an error: the worktrees it lists and
\* removes and the directory it deletes are that repository's, and no record
\* of another name leaves the list
C37_DeletesTheConfirmedRepository ==
    [][ ( /\ dialogType = DialogConfirmDeleteRepo
          /\ last' = "deleteRepository" ) =>
        LET confirmed == confirmDeleteRepoDialog.repoName[1]
        IN  /\ \A k \in 1..Len(calls') :
                  /\ (k = 1 \/ calls'[k].op = "DeleteRepository") =>
                        calls'[k].arg = RepoPath(confirmed)
                  /\ calls'[k].op = "RemoveWorktree" =>
                        RepoOfPath(calls'[k].arg) = confirmed
            /\ \A k \in 1..Len(Repositories) :
                  Repositories[k].Name # confirmed =>
                     \E j \in 1..Len(Repositories') :
                        Repositories'[j] = Repositories[k] ]_vars

\* C38: add-repository is all-or-nothing for the in-memory list: when
\* saveRepository reports an error, a failing config.Save included,
\* Repositories is what it was before; a repository enters the list only
\* together with being persisted, selected and the dialog closed
C38_AddRepositoryAllOrNothing ==
    [][ ( /\ dialogType = DialogAddRepo
          /\ last' = "saveRepository" ) =>
        /\ ( /\ Len(pending') > 0
             /\ pending'[Len(pending')].kind = "error" ) =>
              Repositories' = Repositories
        /\ Repositories' # Repositories =>
              /\ HasCall(calls', "Save", TRUE)
              /\ SelectedRepoIndex' = Len(Repositories') - 1
              /\ dialogType' = DialogNone ]_vars

\* C39: after a successful delete-repository the success message names the
\* repository that was deleted, whatever its position in the list, not one
\* that remains in the list
C39_MessageNamesDeleted ==
    [][ ( /\ dialogType = DialogConfirmDeleteRepo
          /\ last' = "deleteRepository"
          /\ Len(pending') > 0
          /\ pending'[Len(pending')].kind = "success" ) =>
        LET named == pending'[Len(pending')].text[2]
        IN  /\ RepoPath(named) = calls'[1].arg
            /\ \A k \in 1..Len(Repositories') : Repositories'[k].Name # named ]_vars

\* C40: note storage keys collide only for names that sanitize identically:
\* whenever another (repository name, worktree name) pair gets the key just
\* computed, its sanitized repository name and its sanitized worktree name
\* are those of the pair the key was computed for
C40_NoteKeysInjective ==
    applied.name = "worktreeNotesPath" =>
        \A repoName \in KeyNames, worktreeName \in KeyNames :
           worktreeNotesPath(repoName, worktreeName) = applied.out =>
              /\ sanitizeStorageName(repoName) = sanitizeStorageName(applied.args[1])
              /\ sanitizeStorageName(worktreeName) = sanitizeStorageName(applied.args[2])
====
